---- MODULE Spec2Model ----
(***************************************************************************)
(* Moveo exercise catalog: the page script (app.js) as a state machine.    *)
(* State: the module-level variables of the script, the durable bookmark   *)
(* slot of localStorage, the parts of the DOM the script reads and writes, *)
(* and the session history of the home page.  One action per handler.      *)
(***************************************************************************)
EXTENDS Naturals, Sequences, FiniteSets, TLC

(* ------------------------------ bounds -------------------------------- *)
\* longest session history that is explored (entries of window.history)
MaxHist == 3
\* page loads (documents) explored after the first one
MaxLoads == 1
\* catalog loads that renderSavedExercisesList starts in one document
MaxListFetches == 2
\* calls of one document that reach the auth collaborator
MaxCalls == 4
\* play() promises of the preview video not yet settled
MaxPlays == 2
\* calls of saveExercise
MaxSaves == 2

(* --------------------------- JavaScript values ------------------------ *)
\* Identifiers the handlers are called with.
Ids == {"a", "b"}

\* A JavaScript value is a tagged record; v holds the elements of an array,
\* or the characters of a string as one element.
Arr(s) == [t |-> "array", v |-> s]
JsNull == [t |-> "null", v |-> <<>>]
JsNumber == [t |-> "number", v |-> <<>>]
JsObject == [t |-> "object", v |-> <<>>]
JsString(s) == [t |-> "string", v |-> <<s>>]
SyntaxError == [t |-> "SyntaxError", v |-> <<>>]
TypeError == [t |-> "TypeError", v |-> <<>>]
Undefined == [t |-> "undefined", v |-> <<>>]
\* a reference to a record of the catalog
ObjectOf(ex) == [t |-> "object", v |-> <<ex>>]

(* ------------------------------- JSON --------------------------------- *)
\* A stored text is a sequence of lexemes; a string literal is one lexeme.
Quote(s) == "\"" \o s \o "\""

IsQuoted(lex) == \E s \in Ids : lex = Quote(s)

Unquote(lex) == CHOOSE s \in Ids : lex = Quote(s)

\* a serializer that leaves out the separators
JoinNoComma(s) == [i \in 1..Len(s) |-> Quote(s[i])]

RECURSIVE Join(_)
Join(s) ==
  IF s = <<>> THEN <<>>
  ELSE IF Len(s) = 1 THEN <<Quote(s[1])>>
  ELSE <<Quote(s[1]), ",">> \o Join(Tail(s))

\* JSON.stringify of an array of strings
JSONStringify(val) == <<"[">> \o Join(val.v) \o <<"]">>

\* the elements between the brackets: literal (, literal)*
ElementsOk(inner) ==
  /\ Len(inner) % 2 = 1
  /\ \A i \in 1..Len(inner) :
       IF i % 2 = 1 THEN IsQuoted(inner[i]) ELSE inner[i] = ","

ParseElements(inner) ==
  [k \in 1..((Len(inner) + 1) \div 2) |-> Unquote(inner[2 * k - 1])]

\* JSON.parse: the value, or SyntaxError when the text is not JSON
JSONParse(text) ==
  IF Len(text) = 1 /\ text[1] = "null" THEN JsNull
  ELSE IF Len(text) = 1 /\ text[1] = "5" THEN JsNumber
  ELSE IF Len(text) = 1 /\ IsQuoted(text[1]) THEN JsString(Unquote(text[1]))
  ELSE IF text = <<"{", "}">> THEN JsObject
  ELSE IF Len(text) >= 2 /\ text[1] = "[" /\ text[Len(text)] = "]"
    THEN LET inner == SubSeq(text, 2, Len(text) - 1)
         IN IF inner = <<>> THEN Arr(<<>>)
            ELSE IF ElementsOk(inner) THEN Arr(ParseElements(inner))
            ELSE SyntaxError
  ELSE SyntaxError

(* ----------------------------- localStorage --------------------------- *)
\* the 'moveoBookmarks' slot: absent, or a text
NoItem == [present |-> FALSE, text |-> <<>>]
Item(text) == [present |-> TRUE, text |-> text]

\* Contents the slot can hold when a page starts: absent, the empty string,
\* text that is not JSON, JSON that is not an array, and arrays of
\* identifiers (one with a repeated identifier).
StoredTexts ==
  { <<>>,
    <<"[", Quote("a")>>,
    <<"null">>, <<"5">>, <<"{", "}">>, <<Quote("a")>>,
    <<"[", "]">>,
    <<"[", Quote("a"), "]">>,
    <<"[", Quote("b"), ",", Quote("a"), "]">>,
    <<"[", Quote("a"), ",", Quote("a"), "]">> }

InitialSlots == {NoItem} \cup {Item(t) : t \in StoredTexts}

(* ------------------------------ catalog ------------------------------- *)
\* the fields of an ExerciseRecord that the detail template tests before it
\* renders their section
OptionalFields == {"commonMistakes", "progression", "rhythm"}

\* an ExerciseRecord of data/exercises.json: its id, whether it has a preview
\* video, and the optional fields it carries
ExWith(id, video, optional) == [id |-> id, video |-> video, optional |-> optional]

\* a record without optional fields
Ex(id, video) == ExWith(id, video, {})

\* arrays of records data/exercises.json can hold
Catalogs ==
  { <<ExWith("a", TRUE, OptionalFields), Ex("b", FALSE)>>,
    <<ExWith("a", TRUE, OptionalFields)>> }

\* outcomes of fetch(url) followed by response.json(): the fetch rejects
\* (network error), the status is not ok, or the body is read; body is what
\* response.json() gives, SyntaxError when the text is not JSON
NetworkError == [net |-> FALSE, ok |-> FALSE, body |-> SyntaxError]
Fail == [net |-> TRUE, ok |-> FALSE, body |-> SyntaxError]
Fetched(body) == [net |-> TRUE, ok |-> TRUE, body |-> body]

\* the outcomes with a well-formed body
Responses == {NetworkError, Fail} \cup {Fetched(Arr(c)) : c \in Catalogs}

\* bodies that are not an array of records: text that is not JSON, and JSON
\* that is not an array
MalformedBodies == {SyntaxError, JsNull, JsObject}

AllResponses ==
  Responses \cup {Fetched(Arr(<<>>))} \cup {Fetched(b) : b \in MalformedBodies}

\* a find that takes the first record, whatever its id
FindIndexFirst(exs, id) == IF exs = <<>> THEN 0 ELSE 1

\* exercises.find(ex => ex.id === id): the index of the first match, 0 if none
FindIndex(exs, id) ==
  IF \E i \in 1..Len(exs) : exs[i].id = id
  THEN CHOOSE i \in 1..Len(exs) :
         exs[i].id = id /\ \A j \in 1..(i - 1) : exs[j].id # id
  ELSE 0

Found(exs, id) == FindIndex(exs, id) # 0

\* the value exercises.find(ex => ex.id === id) returns on an array
Find(exs, id) ==
  IF FindIndex(exs, id) = 0 THEN Undefined ELSE ObjectOf(exs[FindIndex(exs, id)])

(* ------------------------------- pages -------------------------------- *)
Pages == {"home", "exercise", "exercises"}

\* elements the script looks up by id; a page's markup has some of them
PageMarkups(p) ==
  IF p = "home"
    THEN { {"gallery", "exerciseDetail", "exercisesGrid",
            "exerciseDetailContent", "workoutOfDayBtn"} }
  ELSE IF p = "exercise"
    THEN { {"exercisePageContent"},
           {"exercisePageContent", "exerciseDetailContent"} }
  ELSE { {"exercisesPageGrid"}, {"exercisesPageGrid", "exercisesGrid"} }

\* elements whose innerHTML the script assigns
ContentElems ==
  {"exercisesGrid", "exercisesPageGrid", "exerciseDetailContent",
   "exercisePageContent", "savedExercisesList"}

\* what an element shows: the kind of markup, its items, the optional
\* sections of a detail view, and the href of the link back to the gallery
Fragment(kind, items, sections, back) ==
  [kind |-> kind, items |-> items, sections |-> sections, back |-> back]

Blank == Fragment("blank", <<>>, {}, "none")
NoExercises == Fragment("noExercises", <<>>, {}, "none")
NoSelection == Fragment("noSelection", <<>>, {}, "index.html")
NotFound == Fragment("notFound", <<>>, {}, "index.html")
Cards(items) == Fragment("cards", items, {}, "none")
Detail(item, sections) == Fragment("detail", <<item>>, sections, "none")

\* the state carried by a history entry: an exercise id, or none
NoState == "none"

NormalSpeed == 10
SlowSpeed == 5

\* the two calls of video.play(): in togglePlayPause and in the video set-up
\* of renderExerciseDetail
PlaySites == {"toggle", "render"}

\* a play() promise not yet settled; pause() has aborted it or not
Play(site) == [site |-> site, aborted |-> FALSE]

\* a paused video with no play requested, the button showing "Play"
NoMedia == [pending |-> <<>>, playing |-> FALSE, btn |-> FALSE]

VARIABLES
  page,                 \* document.body.dataset.page
  paramId,              \* the id query parameter of the detail page
  elems,                \* ids of the elements the document has
  pc,                   \* "loaded", "fetching" (init awaits the catalog), "ready"
  loads,                \* page loads so far
  slot,                 \* localStorage 'moveoBookmarks'
  exercises,
  bookmarkedExercises,
  currentExercise,      \* an id, or "null"
  animationSpeed,       \* in tenths
  isPlaying,
  showMuscleHighlight,
  hidden,               \* sections carrying the class 'hidden'
  innerHTML,            \* what each content element shows
  hist, hIdx,           \* window.history: the entries' states, the current one
  toast,                \* the message showError displayed in the last handler
  thrown,               \* the exception the last handler ended with
  lastOp,               \* the last handler and its argument
  saved,                \* this document has run saveBookmarks
  dbl,                  \* consecutive toggles of one identifier
  prev,                 \* the bookmark set the previous document ended with
  client,               \* window.supabase is there (the auth script loaded)
  currentUser,          \* the const currentUser of initAccountPage, or "none"
  authMessage,          \* #authMessage: its textContent and className
  accountUserName,      \* #accountUserName: its textContent
  form,                 \* the .value of the inputs of the submitted form
  inflight,             \* auth requests awaited by a handler, per request
  remoteCalls,          \* calls that have reached the auth collaborator
  sinceSignOut,         \* "signedOut" from a completed sign-out to the next
                        \* started sign-in or sign-up, then "newer"
  listLoads,            \* loadExercises().then(renderSavedExercisesList) pending
  listFetches,          \* such loads started so far
  daily,                \* the last call of getDailyExercise: day and result
  media,                \* the preview video: play() promises not yet settled,
                        \* whether it plays, what the play/pause button shows
  react,                \* the React module: the calls of saveExercise, the
                        \* rows they have asked the collaborator to insert,
                        \* and the state of one useSaveExercise hook
  tips,                 \* the form-tips overlay: its classes, and the
                        \* aria-expanded and the text of its button
  peer                  \* a second document (another tab) on the same
                        \* localStorage: whether it has started, and its own
                        \* bookmarkedExercises

\* the state of the account page
accountVars ==
  <<client, currentUser, authMessage, accountUserName, form, inflight,
    remoteCalls, sinceSignOut>>

\* the state of the app script
appVars ==
  <<page, paramId, elems, pc, loads, slot, exercises, bookmarkedExercises,
    currentExercise, animationSpeed, isPlaying, showMuscleHighlight, hidden,
    innerHTML, hist, hIdx, toast, thrown, saved, dbl, prev, accountVars,
    listLoads, listFetches, daily, media, tips>>

vars == <<appVars, lastOp, react, peer>>

\* the step made no lookup in the catalog
NoLookup == [t |-> "none", v |-> <<>>]

Op(op, id) == [op |-> op, id |-> id, ret |-> "none", found |-> NoLookup]

\* a step that evaluates exercises.find for id (find throws off an array)
Looked(op, id, exs) ==
  [Op(op, id) EXCEPT !.found = IF exs.t = "array" THEN Find(exs.v, id)
                               ELSE NoLookup]
\* the other tab has not been opened
NoPeer == [open |-> FALSE, mem |-> Arr(<<>>)]
NoDbl == [id |-> "none", was |-> FALSE, n |-> 0]
NoPrev == [valid |-> FALSE, mem |-> Arr(<<>>)]

(* ------------------------- bookmark store ----------------------------- *)
\* Array.prototype.includes / String.prototype.includes exist; other values
\* have no such method
HasIncludes(mem) == mem.t \in {"array", "string"}

Includes(mem, id) == \E i \in 1..Len(mem.v) : mem.v[i] = id

\* indexOf, 1-based; 0 stands for -1
IndexOf(mem, id) ==
  IF Includes(mem, id)
  THEN CHOOSE i \in 1..Len(mem.v) :
         mem.v[i] = id /\ \A j \in 1..(i - 1) : mem.v[j] # id
  ELSE 0

\* splice(index, 1)
Splice(s, i) == SubSeq(s, 1, i - 1) \o SubSeq(s, i + 1, Len(s))

\* loadBookmarks: the value of bookmarkedExercises afterwards
LoadBookmarks(mem, stored) ==
  IF stored.present /\ stored.text # <<>>
  THEN IF JSONParse(stored.text) = SyntaxError THEN Arr(<<>>)
       ELSE JSONParse(stored.text)
  ELSE mem

\* a save that removes the item instead of writing an empty array
SaveBookmarksDropEmpty(mem) ==
  IF mem.v = <<>> THEN NoItem ELSE Item(JSONStringify(mem))

\* saveBookmarks: the slot afterwards
SaveBookmarks(mem) == Item(JSONStringify(mem))

\* a toggle that adds a new identifier in front
ToggledUnshift(mem, id) ==
  IF IndexOf(mem, id) > 0 THEN Arr(Splice(mem.v, IndexOf(mem, id)))
  ELSE Arr(<<id>> \o mem.v)

\* the array after the first branch of toggleBookmark
Toggled(mem, id) ==
  IF IndexOf(mem, id) > 0 THEN Arr(Splice(mem.v, IndexOf(mem, id)))
  ELSE Arr(Append(mem.v, id))

\* a toggle that ends with "return index === -1"
ToggleReturnMembership(id, mem) == IF Includes(mem, id) THEN "true" ELSE "false"

\* what a call of toggleBookmark evaluates to when it returns: the function
\* has no return statement
ToggleReturn(id, mem) == "undefined"

\* an alert that is built but never attached to the document
ShowErrorDetached(message) == "none"

\* showError(message): the alert that is displayed
ShowError(message) == message

(* ------------------------------ rendering ----------------------------- *)
\* createExerciseCard: the card's bookmark affordance
CreateExerciseCard(ex, mem) == [id |-> ex.id, bookmarked |-> Includes(mem, ex.id)]

\* what a render leaves: the content, the exception it ends with,
\* whether it has called video.play() and whether it has written the detail
\* template
Rendered(html, err) ==
  [html |-> html, err |-> err, play |-> FALSE, detail |-> FALSE]

\* renderExerciseGallery
RenderExerciseGallery(exs, mem, els, html) ==
  IF "exercisesGrid" \notin els THEN Rendered(html, "none")
  ELSE IF exs.t # "array" THEN Rendered(html, "TypeError")
  ELSE IF exs.v = <<>>
    THEN Rendered([html EXCEPT !["exercisesGrid"] = NoExercises], "none")
  ELSE IF ~HasIncludes(mem) THEN Rendered(html, "TypeError")
  ELSE Rendered([html EXCEPT !["exercisesGrid"] =
                   Cards([i \in 1..Len(exs.v) |->
                            CreateExerciseCard(exs.v[i], mem)])],
                "none")

\* identifiers that resolve inside renderExerciseDetail: its parameter, its
\* locals and the module-level declarations
DetailScope ==
  {"exercise", "detailContainer", "isBookmarked", "video", "exercises",
   "bookmarkedExercises", "currentExercise", "animationSpeed", "isPlaying",
   "showMuscleHighlight", "getCategoryIcon", "document", "console"}

\* the sections the template renders for the optional fields: one per field
\* the record carries
OptionalSections(ex) == {f \in OptionalFields : f \in ex.optional}

\* renderExerciseDetail: the template reads backMarkup, and the video setup
\* reads options
RenderExerciseDetail(ex, mem, els, html) ==
  IF "exerciseDetailContent" \notin els THEN Rendered(html, "none")
  ELSE IF ~HasIncludes(mem) THEN Rendered(html, "TypeError")
  ELSE IF "backMarkup" \notin DetailScope THEN Rendered(html, "ReferenceError")
  ELSE LET shown == [html EXCEPT !["exerciseDetailContent"] =
                       Detail(CreateExerciseCard(ex, mem), OptionalSections(ex))]
       IN IF ex.video /\ "options" \notin DetailScope
          THEN Rendered(shown, "ReferenceError")
          ELSE [Rendered(shown, "none") EXCEPT !.play = ex.video /\ isPlaying,
                                               !.detail = TRUE]

\* the detail template is what #exerciseDetailContent shows
DetailRendered(html) == html["exerciseDetailContent"].kind = "detail"

\* document.getElementById('exerciseVideo'): in the page's own markup, or in
\* the rendered template of an exercise with a preview video
HasVideo(els, html, exs) ==
  \/ "exerciseVideo" \in els
  \/ /\ DetailRendered(html)
     /\ exs.t = "array"
     /\ \E i \in 1..Len(exs.v) :
          /\ exs.v[i].id = html["exerciseDetailContent"].items[1].id
          /\ exs.v[i].video

\* document.getElementById('playPauseBtn')
HasPlayPauseBtn(els, html) == "playPauseBtn" \in els \/ DetailRendered(html)

\* the overlay as the markup has it: class "tips-overlay hidden", its button
\* with aria-expanded="false" and the text 'Show Form Tips'
NoTips == [classes |-> {"hidden"}, expanded |-> "false",
           label |-> "Show Form Tips"]

\* a written detail template has a new overlay and a new button
AfterRender(t, r) == IF r.detail THEN NoTips ELSE t

\* document.getElementById('tipsOverlay') and
\* document.querySelector('[aria-controls="tipsOverlay"]')
HasTipsOverlay(els, html) == "tipsOverlay" \in els \/ DetailRendered(html)
HasTipsBtn(els, html) == "tipsBtn" \in els \/ DetailRendered(html)

\* classList.toggle(cls)
ClassToggled(classes, cls) ==
  IF cls \in classes THEN classes \ {cls} ELSE classes \cup {cls}

\* toggleTipsOverlay: the overlay and its button afterwards
ToggleTipsOverlay(t, overlay, btn) ==
  IF ~overlay THEN t
  ELSE LET classes == ClassToggled(t.classes, "hidden")
           isExpanded == "hidden" \notin classes
       IN IF ~btn THEN [t EXCEPT !.classes = classes]
          ELSE [classes |-> classes,
                expanded |-> IF isExpanded THEN "true" ELSE "false",
                label |-> IF isExpanded THEN "Hide Form Tips"
                          ELSE "Show Form Tips"]

\* the keys and the targets of the keydown events explored: two controls of
\* class 'control-btn' and the body
Keys == {"Escape", " ", "Enter"}
KeyTargets == {"playPauseBtn", "slowMotionBtn", "body"}
ControlBtns == {"playPauseBtn", "slowMotionBtn"}

\* video.play() called at site when start holds
StartPlay(m, site, start) ==
  IF start THEN [m EXCEPT !.pending = Append(@, Play(site))] ELSE m

\* video.pause(): the video stops and the pending play() promises are
\* rejected with an AbortError
Pause(m) ==
  [m EXCEPT !.playing = FALSE,
            !.pending = [i \in 1..Len(@) |-> [@[i] EXCEPT !.aborted = TRUE]]]

\* the .catch handler of a site: isPlaying after it has run
CatchPlayError(site, flag) ==
  IF site = "toggle" THEN FALSE ELSE flag

(* ---------------------------- React module ---------------------------- *)
\* the exercise ids saveExercise is called with: none (falsy) and one
ExerciseIds == {"", "a"}

\* the user of the remote session
SessionUserId == "u1"

\* { data, error }: data is null or an object, error is "none" for null
Result(data, error) == [data |-> data, error |-> error]

\* the row saveExercise asks to insert
Row(userId, exerciseId) == [user_id |-> userId, exercise_id |-> exerciseId]

\* a call of saveExercise(supabase, exerciseId): its arguments, where it is
\* ("getUser" and "insert": suspended at that await; "returned"; "rejected":
\* ended by an exception), and the value it has returned
Call(supabase, id, at, ret) ==
  [supabase |-> supabase, id |-> id, at |-> at, ret |-> ret]

\* no call of saveExercise so far
NoReact ==
  [calls |-> <<>>, inserts |-> <<>>, hook |-> <<>>, isLoading |-> FALSE,
   error |-> "none"]

\* a call of the function the hook returns: the call of saveExercise it
\* awaits (0 for none), where it is, and what its promise settles with
HookCall(call, at, ret) == [call |-> call, at |-> at, ret |-> ret]

\* that function after the awaited saveExercise has settled as c: the error
\* state, and the value returned (a rejection goes through the finally block
\* and rejects the promise)
AfterSave(h, c, error) ==
  IF c.at = "rejected"
    THEN [h |-> [h EXCEPT !.at = "rejected"], error |-> error]
  ELSE IF c.ret.error # "none"
    THEN [h |-> [h EXCEPT !.at = "returned", !.ret = "false"],
          error |-> c.ret.error]
  ELSE [h |-> [h EXCEPT !.at = "returned",
                        !.ret = IF c.ret.data = JsNull THEN "false" ELSE "true"],
        error |-> error]

\* what supabase.auth.getUser() can settle as: a rejection, a value whose
\* data is null (the destructuring of data.user then throws), or
\* { data: { user }, error } with user and error each null or not
GetUserOutcomes ==
  {[kind |-> "rejected", user |-> "none", error |-> "none"],
   [kind |-> "noData", user |-> "none", error |-> "AuthError"]}
    \cup {[kind |-> "value", user |-> u, error |-> e] :
            u \in {"none", SessionUserId}, e \in {"none", "AuthError"}}

\* what the insert can settle as: a rejection, { data: null, error } or
\* { data: row, error: null }
InsertOutcomes == {"rejected", "error", "row"}

\* saveExercise up to its first await: the two argument checks
SaveExerciseStart(supabase, id) ==
  IF ~supabase
    THEN Call(supabase, id, "returned",
              Result(JsNull, "Supabase client is required"))
  ELSE IF id = ""
    THEN Call(supabase, id, "returned", Result(JsNull, "Exercise id is required"))
  ELSE Call(supabase, id, "getUser", Result(JsNull, "none"))

\* saveExercise from the settled getUser() to the insert or the return
AfterGetUser(c, out) ==
  IF out.kind # "value" THEN [c EXCEPT !.at = "rejected"]
  ELSE IF out.error # "none" \/ out.user = "none"
    THEN [c EXCEPT !.at = "returned",
                   !.ret = Result(JsNull,
                                  IF out.error # "none" THEN out.error
                                  ELSE "You must be logged in to save an exercise")]
  ELSE [c EXCEPT !.at = "insert"]

\* saveExercise from the settled insert to its end; row is what was inserted
AfterInsert(c, out, row) ==
  IF out = "rejected" THEN [c EXCEPT !.at = "rejected"]
  ELSE IF out = "error"
    THEN [c EXCEPT !.at = "returned", !.ret = Result(JsNull, "PostgrestError")]
  ELSE [c EXCEPT !.at = "returned", !.ret = Result(ObjectOf(row), "none")]

(* ------------------------------ page load ----------------------------- *)
\* the module-level state and the document right after the script has run
FreshDocument ==
  /\ pc' = "loaded"
  /\ exercises' = Arr(<<>>)
  /\ bookmarkedExercises' = Arr(<<>>)
  /\ currentExercise' = "null"
  /\ animationSpeed' = NormalSpeed
  /\ isPlaying' = FALSE
  /\ showMuscleHighlight' = FALSE
  /\ hidden' = {"exerciseDetail"}
  /\ innerHTML' = [e \in ContentElems |-> Blank]
  /\ toast' = "none"
  /\ thrown' = "none"
  /\ saved' = FALSE
  /\ dbl' = NoDbl
  /\ media' = NoMedia
  /\ tips' = NoTips

ParamIds(p) == IF p = "exercise" THEN Ids \cup {"none"} ELSE {"none"}

\* a string is the sequence of its characters
NoText == <<>>

\* nothing in the message element, no text in the inputs
NoMessage == [text |-> "", cls |-> ""]
NoForm == [name |-> NoText, email |-> NoText, password |-> NoText]

\* the auth requests a handler can be awaiting: the kind, and for a sign-up
\* the name its continuation has captured
Req(kind, name) == [kind |-> kind, name |-> name]
Requests ==
  {Req("signIn", NoText), Req("signOut", NoText), Req("signUp", <<"n">>)}

\* getDailyExercise has not been called
NoDaily == [day |-> 0, of |-> Arr(<<>>), ret |-> Undefined]

\* no auth handler has run in this document
AccountIdle ==
  /\ currentUser = "none"
  /\ authMessage = NoMessage
  /\ accountUserName = NoText
  /\ form = NoForm
  /\ inflight = [r \in Requests |-> 0]
  /\ remoteCalls = 0
  /\ sinceSignOut = "none"
  /\ listLoads = 0
  /\ listFetches = 0

\* the script has run in a first document
InitDocument ==
  /\ page \in Pages
  /\ paramId \in ParamIds(page)
  /\ pc = "loaded"
  /\ loads = 0
  /\ slot \in InitialSlots
  /\ exercises = Arr(<<>>)
  /\ bookmarkedExercises = Arr(<<>>)
  /\ currentExercise = "null"
  /\ animationSpeed = NormalSpeed
  /\ isPlaying = FALSE
  /\ showMuscleHighlight = FALSE
  /\ hidden = {"exerciseDetail"}
  /\ innerHTML = [e \in ContentElems |-> Blank]
  /\ hist = <<NoState>>
  /\ hIdx = 1
  /\ toast = "none"
  /\ thrown = "none"
  /\ lastOp = Op("load", "none")
  /\ saved = FALSE
  /\ dbl = NoDbl
  /\ prev = NoPrev
  /\ client = FALSE
  /\ AccountIdle
  /\ daily = NoDaily
  /\ media = NoMedia
  /\ react = NoReact
  /\ tips = NoTips
  /\ peer = NoPeer

Init ==
  /\ InitDocument
  /\ elems \in PageMarkups(page)

\* The user leaves the document for another page of the site, or reloads it.
\* localStorage survives; a reload keeps the session history.
LoadPage(p, id, markup) ==
  /\ pc = "ready"
  /\ loads < MaxLoads
  /\ page' = p
  /\ paramId' = id
  /\ elems' = markup
  /\ loads' = loads + 1
  /\ FreshDocument
  /\ hist' = IF p = page THEN hist ELSE <<NoState>>
  /\ hIdx' = IF p = page THEN hIdx ELSE 1
  /\ lastOp' = Op("load", "none")
  /\ prev' = [valid |-> saved, mem |-> bookmarkedExercises]
  /\ UNCHANGED <<slot, accountVars, listLoads, listFetches, daily, react, peer>>

\* the DOMContentLoaded listener, up to the first await
DOMContentLoaded ==
  /\ page \in Pages
  /\ pc = "loaded"
  /\ lastOp' = Op("DOMContentLoaded", "none")
  /\ IF page = "exercise" /\ "exercisePageContent" \notin elems
       THEN pc' = "ready" /\ UNCHANGED innerHTML
     ELSE IF page = "exercise" /\ paramId = "none"
       THEN /\ pc' = "ready"
            /\ innerHTML' = [innerHTML EXCEPT !["exercisePageContent"] = NoSelection]
     ELSE pc' = "fetching" /\ UNCHANGED innerHTML
  /\ toast' = "none"
  /\ thrown' = "none"
  /\ dbl' = NoDbl
  /\ UNCHANGED <<page, paramId, elems, loads, slot, exercises,
                 bookmarkedExercises, currentExercise, animationSpeed,
                 isPlaying, showMuscleHighlight, hidden, hist, hIdx, saved, prev,
                 accountVars, listLoads, listFetches, daily, media, tips, react, peer>>

\* loadExercises ends in its catch block
LoadFailed(resp) == ~resp.net \/ ~resp.ok \/ resp.body.t = "SyntaxError"

\* loadExercises: the catalog after the fetch has settled
LoadExercises(exs, resp) == IF LoadFailed(resp) THEN exs ELSE resp.body

\* what the init function does once loadExercises has settled
\* (exercises.find, .length on null and .map exist on arrays only)
InitContinuation(exs) ==
  IF page = "exercise"
    THEN IF exs.t # "array"
           THEN [mem |-> bookmarkedExercises, r |-> Rendered(innerHTML, "TypeError")]
         ELSE IF ~Found(exs.v, paramId)
           THEN [mem |-> bookmarkedExercises,
                 r |-> Rendered([innerHTML EXCEPT !["exercisePageContent"] = NotFound],
                                "none")]
         ELSE LET mem == LoadBookmarks(bookmarkedExercises, slot)
              IN [mem |-> mem,
                  r |-> RenderExerciseDetail(exs.v[FindIndex(exs.v, paramId)], mem,
                                             elems, innerHTML)]
  ELSE IF page = "exercises"
    THEN LET mem == LoadBookmarks(bookmarkedExercises, slot)
         IN [mem |-> mem,
             r |-> IF "exercisesPageGrid" \notin elems
                     THEN Rendered(innerHTML, "none")
                   ELSE IF exs.t # "array" THEN Rendered(innerHTML, "TypeError")
                   ELSE IF exs.v = <<>>
                     THEN Rendered([innerHTML EXCEPT !["exercisesPageGrid"] = NoExercises],
                                   "none")
                   ELSE IF ~HasIncludes(mem) THEN Rendered(innerHTML, "TypeError")
                   ELSE Rendered([innerHTML EXCEPT !["exercisesPageGrid"] =
                                    Cards([i \in 1..Len(exs.v) |->
                                             CreateExerciseCard(exs.v[i], mem)])],
                                 "none")]
  ELSE LET mem == LoadBookmarks(bookmarkedExercises, slot)
       IN [mem |-> mem,
           r |-> IF exs.t # "array" THEN Rendered(innerHTML, "TypeError")
                 ELSE RenderExerciseGallery(exs, mem, elems, innerHTML)]

\* the fetch of the catalog settles and the init function runs to its end
FetchResolve(resp) ==
  /\ pc = "fetching"
  /\ pc' = "ready"
  /\ lastOp' = IF page = "exercise"
                 THEN [Looked("init", paramId, LoadExercises(exercises, resp))
                         EXCEPT !.id = "none"]
               ELSE Op("init", "none")
  /\ exercises' = LoadExercises(exercises, resp)
  /\ toast' = IF LoadFailed(resp) THEN ShowError("loadFailed") ELSE "none"
  /\ LET c == InitContinuation(LoadExercises(exercises, resp))
     IN /\ bookmarkedExercises' = c.mem
        /\ innerHTML' = c.r.html
        /\ thrown' = c.r.err
        /\ media' = StartPlay(media, "render", c.r.play)
        /\ tips' = AfterRender(tips, c.r)
  /\ dbl' = NoDbl
  /\ UNCHANGED <<page, paramId, elems, loads, slot, currentExercise,
                 animationSpeed, isPlaying, showMuscleHighlight, hidden, hist,
                 hIdx, saved, prev, accountVars, listLoads, listFetches, daily,
                 react, peer>>

(* ------------------------------ bookmarks ----------------------------- *)
\* the re-render at the end of toggleBookmark
ToggleRender(id, mem) ==
  IF exercises.t # "array" THEN Rendered(innerHTML, "TypeError")
  ELSE IF ~Found(exercises.v, id) THEN Rendered(innerHTML, "none")
  ELSE IF currentExercise # "null" /\ currentExercise = id
    THEN RenderExerciseDetail(exercises.v[FindIndex(exercises.v, id)], mem, elems,
                              innerHTML)
  ELSE RenderExerciseGallery(exercises, mem, elems, innerHTML)

\* toggleBookmark(id), called from a rendered affordance or through window.
\* A value without indexOf, push or splice makes the handler throw before
\* anything is changed; an exception of the re-render comes after the save.
ToggleBookmark(id) ==
  /\ pc = "ready"
  /\ toast' = "none"
  /\ IF bookmarkedExercises.t # "array"
       THEN /\ thrown' = "TypeError"
            /\ lastOp' = Op("toggleBookmark", id)
            /\ dbl' = NoDbl
            /\ UNCHANGED <<bookmarkedExercises, slot, innerHTML, saved, media, tips>>
     ELSE LET mem == Toggled(bookmarkedExercises, id)
              r == ToggleRender(id, mem)
          IN /\ bookmarkedExercises' = mem
             /\ slot' = SaveBookmarks(mem)
             /\ saved' = TRUE
             /\ innerHTML' = r.html
             /\ thrown' = r.err
             /\ media' = StartPlay(media, "render", r.play)
             /\ tips' = AfterRender(tips, r)
             /\ lastOp' = [Looked("toggleBookmark", id, exercises) EXCEPT
                             !.ret = IF r.err = "none" THEN ToggleReturn(id, mem)
                                     ELSE "none"]
             /\ dbl' = IF dbl.id = id /\ dbl.n = 1
                         THEN [dbl EXCEPT !.n = 2]
                       ELSE [id |-> id, was |-> Includes(bookmarkedExercises, id),
                             n |-> 1]
  /\ UNCHANGED <<page, paramId, elems, pc, loads, exercises, currentExercise,
                 animationSpeed, isPlaying, showMuscleHighlight, hidden, hist,
                 hIdx, prev, accountVars, listLoads, listFetches, daily, react, peer>>

\* the saved-exercises list of the account page
LoadingSaved == Fragment("loadingSaved", <<>>, {}, "none")
SavedItems(ids) == Fragment("saved", ids, {}, "none")

\* an assignment of className instead of classList.add
AddHiddenAlone(hid, id, els) == IF id \in els THEN {id} ELSE hid

\* classList.add / remove on an element looked up with optional chaining
AddHidden(hid, id, els) == IF id \in els THEN hid \cup {id} ELSE hid
RemoveHidden(hid, id, els) == hid \ {id}

ListRendered(html, hid, err, load) ==
  [html |-> html, hidden |-> hid, err |-> err, load |-> load]

\* a list with an item for every bookmarked identifier
ExistingSavedUnfiltered(mem, exs) == mem

\* bookmarkedExercises.map(...).filter(Boolean): the identifiers of mem that
\* exercises.find finds in exs, in the order of mem
ExistingSaved(mem, exs) == SelectSeq(mem, LAMBDA id : Found(exs, id))

\* renderSavedExercisesList: the list, the sections hidden, the exception it
\* ends with, and whether it has started loadExercises().then(itself).
\* (.length of null throws; .map and .find exist on arrays only)
RenderSavedExercisesList(mem, exs, els, html, hid) ==
  IF "savedExercisesList" \notin els THEN ListRendered(html, hid, "none", FALSE)
  ELSE IF mem.t = "null" THEN ListRendered(html, hid, "TypeError", FALSE)
  ELSE IF mem.t = "array" /\ mem.v = <<>>
    THEN ListRendered([html EXCEPT !["savedExercisesList"] = Blank],
                      RemoveHidden(hid, "noSavedExercises", els), "none", FALSE)
  ELSE LET hid2 == AddHidden(hid, "noSavedExercises", els)
       IN IF exs.t = "null" THEN ListRendered(html, hid2, "TypeError", FALSE)
          ELSE IF exs.t = "array" /\ exs.v = <<>>
            THEN ListRendered([html EXCEPT !["savedExercisesList"] = LoadingSaved],
                              hid2, "none", TRUE)
          ELSE IF mem.t # "array" \/ exs.t # "array"
            THEN ListRendered(html, hid2, "TypeError", FALSE)
          ELSE ListRendered(
                 [html EXCEPT !["savedExercisesList"] =
                    SavedItems(ExistingSaved(mem.v, exs.v))],
                 hid2, "none", FALSE)

\* removeSavedOnAccountPage(id)
RemoveSavedOnAccountPage(id) ==
  /\ pc = "ready"
  /\ lastOp' = Op("removeSaved", id)
  /\ toast' = "none"
  /\ dbl' = NoDbl
  /\ IF ~HasIncludes(bookmarkedExercises)
          \/ (bookmarkedExercises.t = "string" /\ Includes(bookmarkedExercises, id))
       THEN /\ thrown' = "TypeError"
            /\ UNCHANGED <<bookmarkedExercises, slot, innerHTML, saved, hidden,
                           listLoads, listFetches>>
     ELSE IF IndexOf(bookmarkedExercises, id) > 0
       THEN LET mem == Arr(Splice(bookmarkedExercises.v,
                                  IndexOf(bookmarkedExercises, id)))
                r == RenderSavedExercisesList(mem, exercises, elems, innerHTML,
                                              hidden)
                n == IF r.load THEN 1 ELSE 0
            IN /\ r.load => listFetches < MaxListFetches
               /\ bookmarkedExercises' = mem
               /\ slot' = SaveBookmarks(mem)
               /\ saved' = TRUE
               /\ innerHTML' = r.html
               /\ hidden' = r.hidden
               /\ thrown' = r.err
               /\ listLoads' = listLoads + n
               /\ listFetches' = listFetches + n
     ELSE /\ thrown' = "none"
          /\ UNCHANGED <<bookmarkedExercises, slot, innerHTML, saved, hidden,
                         listLoads, listFetches>>
  /\ UNCHANGED <<page, paramId, elems, pc, loads, exercises, currentExercise,
                 animationSpeed, isPlaying, showMuscleHighlight, hist, hIdx,
                 prev, accountVars, daily, media, tips, react, peer>>

(* ----------------------------- navigation ----------------------------- *)
\* history.pushState: the entries after the current one are dropped
PushState(h, idx, st) == Append(SubSeq(h, 1, idx), st)

\* the body of viewExercise(id), run while entry idx is the current one
ViewExerciseBody(id, idx) ==
  IF exercises.t # "array"
    THEN /\ toast' = "none"
         /\ thrown' = "TypeError"
         /\ hist' = hist
         /\ hIdx' = idx
         /\ UNCHANGED <<currentExercise, hidden, innerHTML, media, tips>>
  ELSE IF ~Found(exercises.v, id)
    THEN /\ toast' = ShowError("notFound")
         /\ thrown' = "none"
         /\ hist' = hist
         /\ hIdx' = idx
         /\ UNCHANGED <<currentExercise, hidden, innerHTML, media, tips>>
  ELSE /\ idx < MaxHist
       /\ currentExercise' = id
       /\ hist' = PushState(hist, idx, id)
       /\ hIdx' = idx + 1
       /\ hidden' = (hidden \cup {"gallery"}) \ {"exerciseDetail"}
       /\ LET r == RenderExerciseDetail(exercises.v[FindIndex(exercises.v, id)],
                                        bookmarkedExercises, elems, innerHTML)
          IN /\ innerHTML' = r.html
             /\ thrown' = r.err
             /\ media' = StartPlay(media, "render", r.play)
             /\ tips' = AfterRender(tips, r)
       /\ toast' = "none"

\* the body of backToGallery()
BackToGalleryBody(idx) ==
  /\ idx < MaxHist
  /\ hidden' = (hidden \ {"gallery"}) \cup {"exerciseDetail"}
  /\ hist' = PushState(hist, idx, NoState)
  /\ hIdx' = idx + 1
  /\ toast' = "none"
  /\ thrown' = "none"
  /\ UNCHANGED <<currentExercise, innerHTML, media, tips>>

NavUnchanged ==
  UNCHANGED <<page, paramId, elems, pc, loads, slot, exercises,
              bookmarkedExercises, animationSpeed, isPlaying,
              showMuscleHighlight, saved, prev, accountVars, listLoads,
              listFetches, daily, react, peer>>

ViewExercise(id) ==
  /\ page = "home"
  /\ pc = "ready"
  /\ lastOp' = Looked("viewExercise", id, exercises)
  /\ dbl' = NoDbl
  /\ ViewExerciseBody(id, hIdx)
  /\ NavUnchanged

BackToGallery ==
  /\ page = "home"
  /\ pc = "ready"
  /\ lastOp' = Op("backToGallery", "none")
  /\ dbl' = NoDbl
  /\ BackToGalleryBody(hIdx)
  /\ NavUnchanged

\* The user goes back (delta = 1) or forward in the session history; the
\* browser makes that entry the current one and the popstate listener runs.
Popstate(back) ==
  /\ page = "home"
  /\ pc \in {"fetching", "ready"}
  /\ LET idx == IF back THEN hIdx - 1 ELSE hIdx + 1
     IN /\ idx \in 1..Len(hist)
        /\ lastOp' = IF hist[idx] # NoState
                       THEN Looked("popstate", hist[idx], exercises)
                     ELSE Op("popstate", hist[idx])
        /\ IF hist[idx] # NoState
             THEN ViewExerciseBody(hist[idx], idx)
           ELSE BackToGalleryBody(idx)
  /\ dbl' = NoDbl
  /\ NavUnchanged

(* --------------------------- detail controls -------------------------- *)
FlagUnchanged ==
  UNCHANGED <<page, paramId, elems, pc, loads, slot, exercises,
              bookmarkedExercises, currentExercise, hidden, innerHTML, hist,
              hIdx, saved, prev, accountVars, listLoads, listFetches, daily,
              react, peer>>

\* togglePlayPause: the flag flips; with a video, play() is called (its
\* promise settles later) or pause(); with a button, it shows the new flag
TogglePlayPauseBody ==
  /\ isPlaying' = ~isPlaying
  /\ LET video == HasVideo(elems, innerHTML, exercises)
         m == IF ~video THEN media
              ELSE IF ~isPlaying THEN StartPlay(media, "toggle", TRUE)
              ELSE Pause(media)
     IN /\ Len(m.pending) <= MaxPlays
        /\ media' = IF HasPlayPauseBtn(elems, innerHTML)
                      THEN [m EXCEPT !.btn = ~isPlaying]
                    ELSE m
  /\ toast' = "none" /\ thrown' = "none" /\ dbl' = NoDbl
  /\ UNCHANGED <<animationSpeed, showMuscleHighlight>>
  /\ FlagUnchanged

\* togglePlayPause called by the button's onclick
TogglePlayPause ==
  /\ pc = "ready"
  /\ lastOp' = Op("togglePlayPause", "none")
  /\ TogglePlayPauseBody
  /\ UNCHANGED tips

\* toggleTipsOverlay called by the button's onclick
TipsButtonClick ==
  /\ pc = "ready"
  /\ lastOp' = Op("toggleTipsOverlay", "none")
  /\ tips' = ToggleTipsOverlay(tips, HasTipsOverlay(elems, innerHTML),
                               HasTipsBtn(elems, innerHTML))
  /\ toast' = "none" /\ thrown' = "none" /\ dbl' = NoDbl
  /\ UNCHANGED <<animationSpeed, isPlaying, showMuscleHighlight, media>>
  /\ FlagUnchanged

\* handleKeyboardNavigation, the keydown listener that setupEventListeners
\* registers in the init of the home page: Escape toggles an overlay of
\* class 'active'; the space bar on the play/pause control toggles playback
HandleKeyboardNavigation(key, target) ==
  /\ page = "home"
  /\ pc = "ready"
  /\ lastOp' = [Op("keydown", target) EXCEPT !.ret = key]
  /\ tips' = IF /\ key = "Escape"
                /\ HasTipsOverlay(elems, innerHTML)
                /\ "active" \in tips.classes
               THEN ToggleTipsOverlay(tips, TRUE, HasTipsBtn(elems, innerHTML))
             ELSE tips
  /\ IF target \in ControlBtns /\ key = " " /\ target = "playPauseBtn"
       THEN TogglePlayPauseBody
     ELSE /\ toast' = "none" /\ thrown' = "none" /\ dbl' = NoDbl
          /\ UNCHANGED <<animationSpeed, isPlaying, showMuscleHighlight, media>>
          /\ FlagUnchanged

\* A play() promise settles and its callbacks run: fulfilled, the video is
\* playing; rejected, the .catch handler of its call site runs. A promise
\* that pause() has aborted is rejected.
PlaySettled(ok) ==
  /\ pc = "ready"
  /\ media.pending # <<>>
  /\ LET p == Head(media.pending)
     IN /\ p.aborted => ~ok
        /\ media' = [media EXCEPT !.pending = Tail(@),
                                  !.playing = IF ok THEN TRUE ELSE @]
        /\ isPlaying' = IF ok THEN isPlaying ELSE CatchPlayError(p.site, isPlaying)
        /\ lastOp' = [Op(IF ok THEN "playFulfilled" ELSE "playRejected", "none")
                        EXCEPT !.ret = p.site]
  /\ toast' = "none" /\ thrown' = "none" /\ dbl' = NoDbl
  /\ UNCHANGED <<animationSpeed, showMuscleHighlight, tips>>
  /\ FlagUnchanged

\* a speed control that also stops playback
ToggleSlowMotionStopsPlayback ==
  /\ pc = "ready"
  /\ lastOp' = Op("toggleSlowMotion", "none")
  /\ animationSpeed' = IF animationSpeed = NormalSpeed THEN SlowSpeed ELSE NormalSpeed
  /\ isPlaying' = FALSE
  /\ toast' = "none" /\ thrown' = "none" /\ dbl' = NoDbl
  /\ UNCHANGED <<showMuscleHighlight, media, tips>>
  /\ FlagUnchanged

ToggleSlowMotion ==
  /\ pc = "ready"
  /\ lastOp' = Op("toggleSlowMotion", "none")
  /\ animationSpeed' = IF animationSpeed = NormalSpeed THEN SlowSpeed ELSE NormalSpeed
  /\ toast' = "none" /\ thrown' = "none" /\ dbl' = NoDbl
  /\ UNCHANGED <<isPlaying, showMuscleHighlight, media, tips>>
  /\ FlagUnchanged

ToggleMuscleHighlight ==
  /\ pc = "ready"
  /\ lastOp' = Op("toggleMuscleHighlight", "none")
  /\ showMuscleHighlight' = ~showMuscleHighlight
  /\ toast' = "none" /\ thrown' = "none" /\ dbl' = NoDbl
  /\ UNCHANGED <<animationSpeed, isPlaying, media, tips>>
  /\ FlagUnchanged

(* ----------------------------- account page --------------------------- *)
\* the elements of account.html that the script looks up
AccountMarkup ==
  {"accountAuthSection", "accountDashboardSection", "accountUserName",
   "authMessage", "signInForm", "signUpForm", "signOutBtn",
   "savedExercisesList", "noSavedExercises"}

\* the two views of the account page
AccountSections == {"accountAuthSection", "accountDashboardSection"}

MinPasswordLength == 6

\* String.prototype.trim
RECURSIVE TrimStart(_)
TrimStart(s) == IF s # <<>> /\ Head(s) = " " THEN TrimStart(Tail(s)) ELSE s

RECURSIVE TrimEnd(_)
TrimEnd(s) ==
  IF s # <<>> /\ s[Len(s)] = " " THEN TrimEnd(SubSeq(s, 1, Len(s) - 1)) ELSE s

Trim(s) == TrimEnd(TrimStart(s))

\* email.split('@')[0]
LocalPart(email) ==
  IF \E i \in 1..Len(email) : email[i] = "@"
  THEN SubSeq(email, 1,
              (CHOOSE i \in 1..Len(email) :
                 email[i] = "@" /\ \A j \in 1..(i - 1) : email[j] # "@") - 1)
  ELSE email

\* a || b || ... : the first text that is not empty, else the last one
RECURSIVE FirstTruthy(_)
FirstTruthy(texts) ==
  IF Len(texts) = 1 \/ Head(texts) # NoText THEN Head(texts)
  ELSE FirstTruthy(Tail(texts))

\* what the inputs of a form can hold when it is submitted
FormNames == {NoText, <<"n">>}
FormEmails == {<<" ">>, <<"u", "@", "x">>}
FormPasswords ==
  {NoText} \cup {[i \in 1..n |-> "p"] : n \in {MinPasswordLength - 1, MinPasswordLength}}

\* the user objects of the auth collaborator: with and without a name in
\* user_metadata
NoUser == [id |-> "", email |-> NoText, metaName |-> NoText]
Users ==
  { [id |-> "u1", email |-> <<"u", "@", "x">>, metaName |-> NoText],
    [id |-> "u1", email |-> <<"u", "@", "x">>, metaName |-> <<"A">>] }

\* the SessionUser built from a user object; typed is the name of the
\* sign-up form, empty elsewhere
SessionUser(u, typed) ==
  [id |-> u.id, email |-> u.email,
   name |-> FirstTruthy(<<u.metaName, typed, LocalPart(u.email),
                          <<"U", "s", "e", "r">>>>)]

\* how an awaited call of the auth collaborator settles: the promise rejects,
\* or it resolves to { data: { user, session }, error }
Outcome(kind, message, user, session) ==
  [kind |-> kind, message |-> message, user |-> user, session |-> session]

Rejected == Outcome("rejected", "", NoUser, FALSE)
AuthError(message) == Outcome("error", message, NoUser, FALSE)
Granted(u) == Outcome("granted", "", u, TRUE)
Unconfirmed(u) == Outcome("unconfirmed", "", u, FALSE)
NoSession == Outcome("none", "", NoUser, FALSE)

SessionOutcomes ==
  {Rejected, AuthError("session error"), NoSession} \cup {Granted(u) : u \in Users}
SignInOutcomes ==
  {Rejected, AuthError(""), AuthError("Invalid login credentials")}
    \cup {Granted(u) : u \in Users}
SignUpOutcomes ==
  {Rejected, AuthError(""), AuthError("User already registered")}
    \cup {Granted(u) : u \in Users} \cup {Unconfirmed(u) : u \in Users}
SignOutOutcomes == {Rejected, AuthError("sign-out error"), NoSession}

\* the texts the handlers pass to setAuthMessage
MsgEnterEmailPassword == "Please enter email and password."
MsgAuthUnavailable == "Auth is not available. Please refresh the page."
MsgSigningIn == "Signing in..."
MsgInvalidCredentials == "Invalid email or password."
MsgFillAllFields == "Please fill in all fields."
MsgWeakPassword == "Password must be at least 6 characters."
MsgCreatingAccount == "Creating account..."
MsgCouldNotCreate == "Could not create account."
MsgCheckEmail == "Check your email to confirm your account, then sign in."

\* setAuthMessage(msg, isError): the message element afterwards
SetAuthMessage(cur, msg, isError, els) ==
  IF "authMessage" \notin els THEN cur
  ELSE [text |-> msg,
        cls |-> "auth-message" \o (IF isError THEN " error" ELSE " success")]

\* showAuthForm() without hideAccountDashboard()
ShowAuthFormOnly(hid, els) == RemoveHidden(hid, "accountAuthSection", els)

\* showAuthForm(); hideAccountDashboard()
ShowAnonymous(hid, els) ==
  AddHidden(RemoveHidden(hid, "accountAuthSection", els),
            "accountDashboardSection", els)

\* showAccountDashboard(user), run with the sections hid hidden and the
\* catalog exs: un-hides the dashboard, writes the name, renders the saved list
ShowAccountDashboard(user, exs, hid) ==
  LET hid1 == RemoveHidden(hid, "accountDashboardSection", elems)
      r == RenderSavedExercisesList(bookmarkedExercises, exs, elems, innerHTML,
                                    hid1)
  IN IF "accountUserName" \notin elems
       THEN [html |-> innerHTML, hidden |-> hid1, name |-> accountUserName,
             err |-> "TypeError", load |-> FALSE]
     ELSE [html |-> r.html, hidden |-> r.hidden, name |-> user.name,
           err |-> r.err, load |-> r.load]

\* what no handler of the account page writes
AccountUnchanged ==
  UNCHANGED <<page, paramId, elems, loads, slot, currentExercise,
              animationSpeed, isPlaying, showMuscleHighlight, hist, hIdx,
              saved, dbl, prev, client, daily, media, tips, react, peer>>

\* the script has run in a first document of account.html
InitAccountDocument ==
  /\ page = "account"
  /\ paramId = "none"
  /\ elems = AccountMarkup
  /\ pc = "loaded"
  /\ loads = 0
  /\ exercises = Arr(<<>>)
  /\ bookmarkedExercises = Arr(<<>>)
  /\ currentExercise = "null"
  /\ animationSpeed = NormalSpeed
  /\ isPlaying = FALSE
  /\ showMuscleHighlight = FALSE
  /\ hidden \in SUBSET AccountSections
  /\ innerHTML = [e \in ContentElems |-> Blank]
  /\ hist = <<NoState>>
  /\ hIdx = 1
  /\ toast = "none"
  /\ thrown = "none"
  /\ lastOp = Op("load", "none")
  /\ saved = FALSE
  /\ dbl = NoDbl
  /\ prev = NoPrev
  /\ client \in BOOLEAN
  /\ AccountIdle
  /\ daily = NoDaily
  /\ media = NoMedia
  /\ react = NoReact
  /\ tips = NoTips
  /\ peer = NoPeer

InitAccount ==
  /\ InitAccountDocument
  /\ slot \in {NoItem, Item(<<"[", Quote("a"), "]">>)}

\* The user reloads account.html: a new document, with nothing pending and no
\* listener of the old one; localStorage survives.
ReloadAccount ==
  /\ page = "account"
  /\ pc \in {"ready", "failed"}
  /\ loads < MaxLoads
  /\ loads' = loads + 1
  /\ pc' = "loaded"
  /\ exercises' = Arr(<<>>)
  /\ bookmarkedExercises' = Arr(<<>>)
  /\ hidden' = {}
  /\ innerHTML' = [e \in ContentElems |-> Blank]
  /\ toast' = "none"
  /\ thrown' = "none"
  /\ saved' = FALSE
  /\ dbl' = NoDbl
  /\ lastOp' = Op("load", "none")
  /\ prev' = [valid |-> saved, mem |-> bookmarkedExercises]
  /\ currentUser' = "none"
  /\ authMessage' = NoMessage
  /\ accountUserName' = NoText
  /\ form' = NoForm
  /\ inflight' = [r \in Requests |-> 0]
  /\ remoteCalls' = 0
  /\ sinceSignOut' = "none"
  /\ listLoads' = 0
  /\ listFetches' = 0
  /\ UNCHANGED <<page, paramId, elems, slot, currentExercise, animationSpeed,
                 isPlaying, showMuscleHighlight, hist, hIdx, client, daily,
                 media, tips, react, peer>>

\* initAccountPage up to its first suspension: loadBookmarks, then
\* getCurrentUser, which returns null at once without a client and awaits
\* getSession with one
InitAccountPage ==
  /\ page = "account"
  /\ pc = "loaded"
  /\ bookmarkedExercises' = LoadBookmarks(bookmarkedExercises, slot)
  /\ toast' = "none"
  /\ thrown' = "none"
  /\ IF ~client
       THEN /\ pc' = "ready"
            /\ hidden' = ShowAnonymous(hidden, elems)
            /\ lastOp' = [Op("initAccountPage", "none") EXCEPT !.ret = "anonymous"]
            /\ UNCHANGED remoteCalls
     ELSE /\ pc' = "session"
          /\ remoteCalls' = remoteCalls + 1
          /\ lastOp' = [Op("initAccountPage", "none") EXCEPT !.ret = "awaiting"]
          /\ UNCHANGED hidden
  /\ UNCHANGED <<exercises, innerHTML, currentUser, authMessage,
                 accountUserName, form, inflight, sinceSignOut, listLoads,
                 listFetches>>
  /\ AccountUnchanged

\* getSession settles: getCurrentUser returns or throws, and initAccountPage
\* goes on to loadExercises or to the auth form and the listeners.  A
\* rejection ends initAccountPage: no view is chosen, no listener registered.
GetSessionSettled(out) ==
  /\ page = "account"
  /\ pc = "session"
  /\ toast' = "none"
  /\ lastOp' = [Op("getCurrentUser", "none") EXCEPT
                  !.ret = IF out.kind = "rejected" THEN "throws"
                          ELSE IF out.kind = "granted" THEN "user"
                          ELSE "null"]
  /\ IF out.kind = "rejected"
       THEN /\ pc' = "failed"
            /\ thrown' = "Rejected"
            /\ UNCHANGED <<hidden, currentUser>>
     ELSE IF out.kind = "granted"
       THEN /\ pc' = "accountFetching"
            /\ currentUser' = SessionUser(out.user, NoText)
            /\ thrown' = "none"
            /\ UNCHANGED hidden
     ELSE /\ pc' = "ready"
          /\ hidden' = ShowAnonymous(hidden, elems)
          /\ thrown' = "none"
          /\ UNCHANGED currentUser
  /\ UNCHANGED <<exercises, bookmarkedExercises, innerHTML, authMessage,
                 accountUserName, form, inflight, remoteCalls, sinceSignOut,
                 listLoads, listFetches>>
  /\ AccountUnchanged

\* the rest of initAccountPage for a signed-in user: loadExercises settles,
\* then showAccountDashboard(currentUser), hideAuthForm() and the listeners
AccountCatalogSettled(resp) ==
  /\ page = "account"
  /\ pc = "accountFetching"
  /\ lastOp' = [Op("initAccountPage", "none") EXCEPT !.ret = "authenticated"]
  /\ exercises' = LoadExercises(exercises, resp)
  /\ toast' = IF LoadFailed(resp) THEN ShowError("loadFailed") ELSE "none"
  /\ LET d == ShowAccountDashboard(currentUser, LoadExercises(exercises, resp),
                                   hidden)
         n == IF d.load THEN 1 ELSE 0
     IN /\ d.load => listFetches < MaxListFetches
        /\ innerHTML' = d.html
        /\ accountUserName' = d.name
        /\ thrown' = d.err
        /\ listLoads' = listLoads + n
        /\ listFetches' = listFetches + n
        /\ IF d.err # "none"
             THEN pc' = "failed" /\ hidden' = d.hidden
           ELSE /\ pc' = "ready"
                /\ hidden' = AddHidden(d.hidden, "accountAuthSection", elems)
  /\ UNCHANGED <<bookmarkedExercises, currentUser, authMessage, form, inflight,
                 remoteCalls, sinceSignOut>>
  /\ AccountUnchanged

\* a catalog load started by renderSavedExercisesList settles and its then
\* callback renders the list again
SavedListLoadSettled(resp) ==
  /\ page = "account"
  /\ listLoads > 0
  /\ lastOp' = Op("renderSavedExercisesList", "none")
  /\ exercises' = LoadExercises(exercises, resp)
  /\ toast' = IF LoadFailed(resp) THEN ShowError("loadFailed") ELSE "none"
  /\ LET r == RenderSavedExercisesList(bookmarkedExercises,
                                       LoadExercises(exercises, resp), elems,
                                       innerHTML, hidden)
         n == IF r.load THEN 1 ELSE 0
     IN /\ r.load => listFetches < MaxListFetches
        /\ innerHTML' = r.html
        /\ hidden' = r.hidden
        /\ thrown' = r.err
        /\ listLoads' = listLoads - 1 + n
        /\ listFetches' = listFetches + n
  /\ UNCHANGED <<pc, bookmarkedExercises, currentUser, authMessage,
                 accountUserName, form, inflight, remoteCalls, sinceSignOut>>
  /\ AccountUnchanged

\* a request of a handler reaches the collaborator and the handler suspends
Await(req) ==
  /\ remoteCalls < MaxCalls
  /\ inflight' = [inflight EXCEPT ![req] = @ + 1]
  /\ remoteCalls' = remoteCalls + 1

\* the validation of handleSignIn: the message it ends with, "" when the
\* form passes
CheckSignIn(email, password) ==
  IF Trim(email) = NoText \/ password = NoText THEN MsgEnterEmailPassword
  ELSE ""

\* a validation that does not look at the length of the password
CheckSignUpAnyLength(name, email, password) ==
  IF Trim(name) = NoText \/ Trim(email) = NoText \/ password = NoText
    THEN MsgFillAllFields
  ELSE ""

\* the validation of handleSignUp
CheckSignUp(name, email, password) ==
  IF Trim(name) = NoText \/ Trim(email) = NoText \/ password = NoText
    THEN MsgFillAllFields
  ELSE IF Len(password) < MinPasswordLength THEN MsgWeakPassword
  ELSE ""

\* the part of a submit handler before its await: validation, the lookup of
\* the client, the progress message and the request
Submit(op, check, progress, req) ==
  /\ page = "account"
  /\ pc = "ready"
  /\ "accountAuthSection" \notin hidden
  /\ toast' = "none"
  /\ thrown' = "none"
  /\ IF check # ""
       THEN /\ authMessage' = SetAuthMessage(authMessage, check, TRUE, elems)
            /\ lastOp' = [Op(op, "none") EXCEPT !.ret = "invalid"]
            /\ UNCHANGED <<inflight, remoteCalls, sinceSignOut>>
     ELSE IF ~client
       THEN /\ authMessage' = SetAuthMessage(authMessage, MsgAuthUnavailable,
                                             TRUE, elems)
            /\ lastOp' = [Op(op, "none") EXCEPT !.ret = "unavailable"]
            /\ UNCHANGED <<inflight, remoteCalls, sinceSignOut>>
     ELSE /\ authMessage' = SetAuthMessage(authMessage, progress, FALSE, elems)
          /\ lastOp' = [Op(op, "none") EXCEPT !.ret = "awaiting"]
          /\ Await(req)
          /\ sinceSignOut' = IF sinceSignOut = "signedOut" THEN "newer"
                             ELSE sinceSignOut
  /\ UNCHANGED <<pc, exercises, bookmarkedExercises, hidden, innerHTML,
                 currentUser, accountUserName, listLoads, listFetches>>
  /\ AccountUnchanged

\* handleSignIn, from the submit event to the await
HandleSignIn(email, password) ==
  /\ form' = [name |-> NoText, email |-> email, password |-> password]
  /\ Submit("handleSignIn", CheckSignIn(email, password), MsgSigningIn,
            Req("signIn", NoText))

\* handleSignUp, from the submit event to the await
HandleSignUp(name, email, password) ==
  /\ form' = [name |-> name, email |-> email, password |-> password]
  /\ Submit("handleSignUp", CheckSignUp(name, email, password),
            MsgCreatingAccount, Req("signUp", Trim(name)))

\* the part of a submit handler after its await, for the request req having
\* settled as out: an unhandled rejection, the error message, the
\* confirmation message of a sign-up, or the dashboard
Settled(op, req, out, fallback) ==
  /\ page = "account"
  /\ inflight[req] > 0
  /\ inflight' = [inflight EXCEPT ![req] = @ - 1]
  /\ toast' = "none"
  /\ lastOp' = [Op(op, "none") EXCEPT !.ret = out.kind]
  /\ IF out.kind = "rejected"
       THEN /\ thrown' = "Rejected"
            /\ UNCHANGED <<authMessage, hidden, innerHTML, accountUserName,
                           listLoads, listFetches>>
     ELSE IF out.kind = "error"
       THEN /\ authMessage' =
                 SetAuthMessage(authMessage,
                                IF out.message # "" THEN out.message ELSE fallback,
                                TRUE, elems)
            /\ thrown' = "none"
            /\ UNCHANGED <<hidden, innerHTML, accountUserName, listLoads,
                           listFetches>>
     ELSE IF out.kind = "unconfirmed"
       THEN /\ authMessage' = SetAuthMessage(authMessage, MsgCheckEmail, FALSE,
                                             elems)
            /\ thrown' = "none"
            /\ UNCHANGED <<hidden, innerHTML, accountUserName, listLoads,
                           listFetches>>
     ELSE LET d == ShowAccountDashboard(
                     SessionUser(out.user, req.name), exercises,
                     AddHidden(hidden, "accountAuthSection", elems))
              n == IF d.load THEN 1 ELSE 0
          IN /\ d.load => listFetches < MaxListFetches
             /\ authMessage' = SetAuthMessage(authMessage, "", FALSE, elems)
             /\ hidden' = d.hidden
             /\ innerHTML' = d.html
             /\ accountUserName' = d.name
             /\ thrown' = d.err
             /\ listLoads' = listLoads + n
             /\ listFetches' = listFetches + n
  /\ UNCHANGED <<pc, exercises, bookmarkedExercises, currentUser, form,
                 remoteCalls, sinceSignOut>>
  /\ AccountUnchanged

\* signInWithPassword settles and handleSignIn runs to its end
SignInSettled(out) ==
  Settled("handleSignIn", Req("signIn", NoText), out, MsgInvalidCredentials)

\* signUp settles and handleSignUp runs to its end
SignUpSettled(out) ==
  Settled("handleSignUp", Req("signUp", <<"n">>), out, MsgCouldNotCreate)

\* handleSignOut, from the click to the await; without a client there is no
\* await and the handler runs to its end
HandleSignOut ==
  /\ page = "account"
  /\ pc = "ready"
  /\ "accountDashboardSection" \notin hidden
  /\ toast' = "none"
  /\ thrown' = "none"
  /\ IF client
       THEN /\ Await(Req("signOut", NoText))
            /\ lastOp' = [Op("handleSignOut", "none") EXCEPT !.ret = "awaiting"]
            /\ UNCHANGED <<hidden, sinceSignOut>>
     ELSE /\ hidden' = ShowAnonymous(hidden, elems)
          /\ sinceSignOut' = "signedOut"
          /\ lastOp' = [Op("handleSignOut", "none") EXCEPT !.ret = "none"]
          /\ UNCHANGED <<inflight, remoteCalls>>
  /\ UNCHANGED <<pc, exercises, bookmarkedExercises, innerHTML, currentUser,
                 authMessage, accountUserName, form, listLoads, listFetches>>
  /\ AccountUnchanged

\* signOut settles and handleSignOut runs to its end; its result is not read
SignOutSettled(out) ==
  /\ page = "account"
  /\ inflight[Req("signOut", NoText)] > 0
  /\ inflight' = [inflight EXCEPT ![Req("signOut", NoText)] = @ - 1]
  /\ toast' = "none"
  /\ lastOp' = [Op("handleSignOut", "none") EXCEPT !.ret = out.kind]
  /\ IF out.kind = "rejected"
       THEN /\ thrown' = "Rejected"
            /\ UNCHANGED <<hidden, sinceSignOut>>
     ELSE /\ thrown' = "none"
          /\ hidden' = ShowAnonymous(hidden, elems)
          /\ sinceSignOut' = "signedOut"
  /\ UNCHANGED <<pc, exercises, bookmarkedExercises, innerHTML, currentUser,
                 authMessage, accountUserName, form, remoteCalls, listLoads,
                 listFetches>>
  /\ AccountUnchanged

(* ---------------------------- daily exercise -------------------------- *)
\* the days new Date().getDate() can return
Days == 1..31

\* a selection that counts the days from zero
GetDailyExerciseFromZero(d, exs) ==
  IF exs.t = "null" THEN TypeError
  ELSE IF exs.t # "array" THEN Undefined
  ELSE IF Len(exs.v) = 0 THEN JsNull
  ELSE ObjectOf(exs.v[((d - 1) % Len(exs.v)) + 1])

\* getDailyExercise() on day d of the month: the value returned, or the
\* TypeError of reading .length of null.  JavaScript indexes from 0, a
\* sequence from 1.
GetDailyExercise(d, exs) ==
  IF exs.t = "null" THEN TypeError
  ELSE IF exs.t # "array" THEN Undefined
  ELSE IF Len(exs.v) = 0 THEN JsNull
  ELSE ObjectOf(exs.v[(d % Len(exs.v)) + 1])

\* the click listener of #workoutOfDayBtn on day d: getDailyExercise, and
\* with a result the browser leaves for exercise.html?id=<its id>
WorkoutOfDay(d, markup) ==
  /\ page = "home"
  /\ pc = "ready"
  /\ "workoutOfDayBtn" \in elems
  /\ lastOp' = Op("workoutOfDay", "none")
  /\ LET r == GetDailyExercise(d, exercises)
     IN /\ daily' = [day |-> d, of |-> exercises, ret |-> r]
        /\ IF r.t = "object"
             THEN /\ loads < MaxLoads
                  /\ page' = "exercise"
                  /\ paramId' = r.v[1].id
                  /\ elems' = markup
                  /\ loads' = loads + 1
                  /\ FreshDocument
                  /\ hist' = <<NoState>>
                  /\ hIdx' = 1
                  /\ prev' = [valid |-> saved, mem |-> bookmarkedExercises]
           ELSE /\ toast' = "none"
                /\ thrown' = IF r.t = "TypeError" THEN "TypeError" ELSE "none"
                /\ dbl' = NoDbl
                /\ UNCHANGED <<page, paramId, elems, pc, loads, exercises,
                               bookmarkedExercises, currentExercise,
                               animationSpeed, isPlaying, showMuscleHighlight,
                               hidden, innerHTML, hist, hIdx, saved, prev,
                               media, tips>>
  /\ UNCHANGED <<slot, accountVars, listLoads, listFetches, react, peer>>

(* --------------------------- saving an exercise ----------------------- *)
\* a component calls saveExercise(supabase, exerciseId)
SaveExercise(supabase, id) ==
  /\ Len(react.calls) < MaxSaves
  /\ react' = [react EXCEPT !.calls = Append(@, SaveExerciseStart(supabase, id))]
  /\ lastOp' = Op("saveExercise", id)
  /\ UNCHANGED <<appVars, peer>>

\* getUser() of call i settles: the call ends, or builds the row for the
\* user found and asks for its insert
GetUserSettled(i, out) ==
  /\ i \in 1..Len(react.calls)
  /\ react.calls[i].at = "getUser"
  /\ LET c == AfterGetUser(react.calls[i], out)
     IN react' = [react EXCEPT
                    !.calls[i] = c,
                    !.inserts = IF c.at = "insert"
                                  THEN Append(@, [call |-> i,
                                                  row |-> Row(out.user, c.id)])
                                ELSE @]
  /\ lastOp' = [Op("getUser", react.calls[i].id) EXCEPT !.ret = out.kind]
  /\ UNCHANGED <<appVars, peer>>

\* the insert of call i settles and the call ends
InsertSettled(i, out) ==
  /\ i \in 1..Len(react.calls)
  /\ react.calls[i].at = "insert"
  /\ LET ins == CHOOSE x \in {react.inserts[k] : k \in 1..Len(react.inserts)} :
                  x.call = i
     IN react' = [react EXCEPT !.calls[i] = AfterInsert(@, out, ins.row)]
  /\ lastOp' = [Op("insert", react.calls[i].id) EXCEPT !.ret = out]
  /\ UNCHANGED <<appVars, peer>>

\* a component calls the function returned by useSaveExercise(supabase)
HookSaveExercise(supabase, id) ==
  /\ Len(react.calls) < MaxSaves
  /\ Len(react.hook) < MaxSaves
  /\ react' = IF ~supabase \/ id = ""
                THEN [react EXCEPT
                        !.hook = Append(@, HookCall(0, "returned", "false"))]
              ELSE [react EXCEPT
                      !.isLoading = TRUE,
                      !.error = "none",
                      !.calls = Append(@, SaveExerciseStart(supabase, id)),
                      !.hook = Append(@, HookCall(Len(react.calls) + 1,
                                                  "awaiting", "none"))]
  /\ lastOp' = Op("hookSaveExercise", id)
  /\ UNCHANGED <<appVars, peer>>

\* the saveExercise awaited by call h of the hook has settled: the rest of
\* the try block, then the finally block
HookSaveSettled(h) ==
  /\ h \in 1..Len(react.hook)
  /\ react.hook[h].at = "awaiting"
  /\ react.calls[react.hook[h].call].at \in {"returned", "rejected"}
  /\ LET a == AfterSave(react.hook[h], react.calls[react.hook[h].call],
                        react.error)
     IN react' = [react EXCEPT !.hook[h] = a.h,
                               !.error = a.error,
                               !.isLoading = FALSE]
  /\ lastOp' = [Op("hookSettled", react.calls[react.hook[h].call].id)
                  EXCEPT !.ret = react.calls[react.hook[h].call].at]
  /\ UNCHANGED <<appVars, peer>>

(* ------------------------------ second tab ---------------------------- *)
\* what a step of the other document leaves alone: everything of this
\* document; the two share the slot only
PeerUnchanged ==
  UNCHANGED <<page, paramId, elems, pc, loads, exercises, bookmarkedExercises,
              currentExercise, animationSpeed, isPlaying, showMuscleHighlight,
              hidden, innerHTML, hist, hIdx, toast, thrown, saved, dbl, prev,
              accountVars, listLoads, listFetches, daily, media, tips, react>>

\* the other document starts: its init runs loadBookmarks on the slot as it
\* is now
PeerOpen ==
  /\ ~peer.open
  /\ peer' = [open |-> TRUE, mem |-> LoadBookmarks(Arr(<<>>), slot)]
  /\ lastOp' = Op("peerLoadBookmarks", "none")
  /\ UNCHANGED slot
  /\ PeerUnchanged

\* toggleBookmark(id) in the other document: its own array, then the slot
PeerToggleBookmark(id) ==
  /\ peer.open
  /\ peer.mem.t = "array"
  /\ peer' = [peer EXCEPT !.mem = Toggled(peer.mem, id)]
  /\ slot' = SaveBookmarks(Toggled(peer.mem, id))
  /\ lastOp' = Op("peerToggleBookmark", id)
  /\ PeerUnchanged

\* removeSavedOnAccountPage(id) in the other document: nothing happens for
\* an identifier its array does not have
PeerRemoveSaved(id) ==
  /\ peer.open
  /\ peer.mem.t = "array"
  /\ lastOp' = Op("peerRemoveSaved", id)
  /\ IF IndexOf(peer.mem, id) > 0
       THEN LET mem == Arr(Splice(peer.mem.v, IndexOf(peer.mem, id)))
            IN /\ peer' = [peer EXCEPT !.mem = mem]
               /\ slot' = SaveBookmarks(mem)
     ELSE UNCHANGED <<peer, slot>>
  /\ PeerUnchanged

(* ---------------------------- specification --------------------------- *)
Next ==
  \/ DOMContentLoaded
  \/ \E resp \in Responses : FetchResolve(resp)
  \/ \E p \in Pages : \E id \in ParamIds(p) : \E m \in PageMarkups(p) :
       LoadPage(p, id, m)
  \/ \E id \in Ids : ToggleBookmark(id)
  \/ \E id \in Ids : RemoveSavedOnAccountPage(id)
  \/ \E id \in Ids : ViewExercise(id)
  \/ BackToGallery
  \/ \E back \in BOOLEAN : Popstate(back)
  \/ TogglePlayPause
  \/ ToggleSlowMotion
  \/ ToggleMuscleHighlight

Spec == Init /\ [][Next]_vars

\* The bookmark store on every page: page loads, bookmark mutations and the
\* navigation that decides which view a toggle re-renders.
NextStore ==
  \/ DOMContentLoaded
  \/ \E resp \in Responses : FetchResolve(resp)
  \/ \E p \in Pages : \E id \in ParamIds(p) : \E m \in PageMarkups(p) :
       LoadPage(p, id, m)
  \/ \E id \in Ids : ToggleBookmark(id)
  \/ \E id \in Ids : RemoveSavedOnAccountPage(id)
  \/ \E id \in Ids : ViewExercise(id)
  \/ BackToGallery
  \/ \E back \in BOOLEAN : Popstate(back)

SpecStore == Init /\ [][NextStore]_vars

\* The home page: gallery, in-page detail view, its controls and the session
\* history, with a well-formed bookmark slot.
InitView ==
  /\ Init
  /\ page = "home"
  /\ slot \in {NoItem, Item(<<"[", Quote("a"), "]">>)}

NextView ==
  \/ DOMContentLoaded
  \/ \E resp \in Responses : FetchResolve(resp)
  \/ \E m \in PageMarkups("home") : LoadPage("home", "none", m)
  \/ \E id \in Ids : ToggleBookmark(id)
  \/ \E id \in Ids : ViewExercise(id)
  \/ BackToGallery
  \/ \E back \in BOOLEAN : Popstate(back)
  \/ TogglePlayPause
  \/ ToggleSlowMotion
  \/ ToggleMuscleHighlight

SpecView == InitView /\ [][NextView]_vars

\* The account page: init, the three auth handlers with their requests in
\* flight, and the saved-exercises list.
NextAccount ==
  \/ InitAccountPage
  \/ \E out \in SessionOutcomes : GetSessionSettled(out)
  \/ \E resp \in Responses : AccountCatalogSettled(resp)
  \/ \E resp \in Responses : SavedListLoadSettled(resp)
  \/ \E e \in FormEmails : \E p \in FormPasswords : HandleSignIn(e, p)
  \/ \E out \in SignInOutcomes : SignInSettled(out)
  \/ \E n \in FormNames : \E e \in FormEmails : \E p \in FormPasswords :
       HandleSignUp(n, e, p)
  \/ \E out \in SignUpOutcomes : SignUpSettled(out)
  \/ HandleSignOut
  \/ \E out \in SignOutOutcomes : SignOutSettled(out)

SpecAccount == InitAccount /\ [][NextAccount]_vars

\* Catalog loads with every kind of response, on the three catalog pages,
\* and the two callers of renderExerciseDetail.
InitLoad ==
  /\ Init
  /\ slot \in {NoItem, Item(<<"[", Quote("a"), "]">>)}

NextLoad ==
  \/ DOMContentLoaded
  \/ \E resp \in AllResponses : FetchResolve(resp)
  \/ \E p \in Pages : \E id \in ParamIds(p) : \E m \in PageMarkups(p) :
       LoadPage(p, id, m)
  \/ \E id \in Ids : ViewExercise(id)

SpecLoad == InitLoad /\ [][NextLoad]_vars

\* The daily exercise: the home page with catalogs of every length up to
\* three, and the workout-of-the-day button on each day of the month.
DailyResponses ==
  Responses \cup
    { Fetched(Arr(<<>>)),
      Fetched(Arr(<<ExWith("a", TRUE, OptionalFields), Ex("b", FALSE),
                    Ex("c", FALSE)>>)) }

InitDaily ==
  /\ Init
  /\ page = "home"
  /\ slot = NoItem

NextDaily ==
  \/ DOMContentLoaded
  \/ \E resp \in DailyResponses : FetchResolve(resp)
  \/ \E d \in Days : \E m \in PageMarkups("exercise") : WorkoutOfDay(d, m)

SpecDaily == InitDaily /\ [][NextDaily]_vars

\* The preview video: a home page whose markup has the video element and the
\* play/pause button, the three detail controls, the settling of the play()
\* promises, and bookmarks.
MediaMarkups ==
  {m \cup {"exerciseVideo", "playPauseBtn"} : m \in PageMarkups("home")}

InitMedia ==
  /\ InitDocument
  /\ page = "home"
  /\ elems \in MediaMarkups
  /\ slot = NoItem

NextMedia ==
  \/ DOMContentLoaded
  \/ \E resp \in Responses : FetchResolve(resp)
  \/ \E id \in Ids : ViewExercise(id)
  \/ BackToGallery
  \/ TogglePlayPause
  \/ \E ok \in BOOLEAN : PlaySettled(ok)
  \/ ToggleSlowMotion
  \/ ToggleMuscleHighlight
  \/ \E id \in Ids : ToggleBookmark(id)

SpecMedia == InitMedia /\ [][NextMedia]_vars

\* The saved-exercises list: a signed-in account page whose slot holds none,
\* one or two identifiers, catalogs with and without the second exercise,
\* bookmarks added and removed in the page, a reload, and the gallery of the
\* home page the user goes on to.
SavedSlots ==
  {NoItem, Item(<<"[", Quote("a"), "]">>),
   Item(<<"[", Quote("b"), ",", Quote("a"), "]">>)}

InitSaved ==
  /\ InitAccountDocument
  /\ slot \in SavedSlots
  /\ client
  /\ hidden = {}

NextSaved ==
  \/ InitAccountPage
  \/ \E u \in Users : GetSessionSettled(Granted(u))
  \/ \E resp \in Responses : AccountCatalogSettled(resp)
  \/ \E resp \in Responses : SavedListLoadSettled(resp)
  \/ \E id \in Ids : ToggleBookmark(id)
  \/ \E id \in Ids : RemoveSavedOnAccountPage(id)
  \/ ReloadAccount
  \/ \E m \in PageMarkups("home") : LoadPage("home", "none", m)
  \/ DOMContentLoaded
  \/ \E resp \in Responses : FetchResolve(resp)

SpecSaved == InitSaved /\ [][NextSaved]_vars

\* The views of the two pages that switch sections: the home page with its
\* navigation (viewExercise, backToGallery, back and forward), and the
\* account page with its init and the three auth handlers.
InitViews ==
  \/ InitView /\ slot = NoItem
  \/ InitAccount /\ slot = NoItem

NextViews ==
  \/ DOMContentLoaded
  \/ \E resp \in Responses : FetchResolve(resp)
  \/ \E id \in Ids : ViewExercise(id)
  \/ BackToGallery
  \/ \E back \in BOOLEAN : Popstate(back)
  \/ InitAccountPage
  \/ \E out \in SessionOutcomes : GetSessionSettled(out)
  \/ \E resp \in Responses : AccountCatalogSettled(resp)
  \/ \E e \in FormEmails : \E p \in FormPasswords : HandleSignIn(e, p)
  \/ \E out \in SignInOutcomes : SignInSettled(out)
  \/ \E n \in FormNames : \E e \in FormEmails : \E p \in FormPasswords :
       HandleSignUp(n, e, p)
  \/ \E out \in SignUpOutcomes : SignUpSettled(out)
  \/ HandleSignOut
  \/ \E out \in SignOutOutcomes : SignOutSettled(out)

SpecViews == InitViews /\ [][NextViews]_vars

\* The React module: calls of saveExercise, directly and through the hook,
\* with and without a client and an exercise id, and every way their two
\* requests can settle.
InitSave ==
  /\ Init
  /\ page = "home"
  /\ slot = NoItem

NextSave ==
  \/ \E supabase \in BOOLEAN : \E id \in ExerciseIds : SaveExercise(supabase, id)
  \/ \E i \in 1..MaxSaves : \E out \in GetUserOutcomes : GetUserSettled(i, out)
  \/ \E i \in 1..MaxSaves : \E out \in InsertOutcomes : InsertSettled(i, out)
  \/ \E supabase \in BOOLEAN : \E id \in ExerciseIds :
       HookSaveExercise(supabase, id)
  \/ \E h \in 1..MaxSaves : HookSaveSettled(h)

SpecSave == InitSave /\ [][NextSave]_vars

\* Two documents on one slot: the gallery of the home page, and a second
\* document opened at any moment, each toggling and removing bookmarks.
InitTabs ==
  /\ Init
  /\ page = "home"
  /\ slot \in {NoItem, Item(<<"[", Quote("a"), "]">>)}

NextTabs ==
  \/ DOMContentLoaded
  \/ \E resp \in Responses : FetchResolve(resp)
  \/ \E id \in Ids : ToggleBookmark(id)
  \/ PeerOpen
  \/ \E id \in Ids : PeerToggleBookmark(id)
  \/ \E id \in Ids : PeerRemoveSaved(id)

SpecTabs == InitTabs /\ [][NextTabs]_vars

\* The form tips: a home page whose markup has the overlay, its button and
\* the play/pause control; clicks on the two buttons and key presses.
TipsMarkups ==
  {m \cup {"tipsOverlay", "tipsBtn", "playPauseBtn", "exerciseVideo"} :
     m \in PageMarkups("home")}

InitTips ==
  /\ InitDocument
  /\ page = "home"
  /\ elems \in TipsMarkups
  /\ slot = NoItem

NextTips ==
  \/ DOMContentLoaded
  \/ \E resp \in Responses : FetchResolve(resp)
  \/ TipsButtonClick
  \/ \E key \in Keys : \E target \in KeyTargets :
       HandleKeyboardNavigation(key, target)
  \/ TogglePlayPause
  \/ \E ok \in BOOLEAN : PlaySettled(ok)

SpecTips == InitTips /\ [][NextTips]_vars

(* ============================== properties ============================ *)
\* the init function of this document has run loadBookmarks
BookmarksLoaded ==
  /\ lastOp.op = "init"
  /\ page = "exercise" => Found(exercises.v, paramId)

\* the membership a caller would read off the bookmark set
Membership(id) == IF Includes(bookmarkedExercises, id) THEN "true" ELSE "false"

\* C1: once a document has completed a bookmark mutation (toggleBookmark or
\* removeSavedOnAccountPage), the 'moveoBookmarks' slot holds exactly the
\* serialization of the in-memory bookmark set.
C1_SlotIsSerializedSet ==
  saved => /\ bookmarkedExercises.t = "array"
           /\ slot.present
           /\ slot.text = JSONStringify(bookmarkedExercises)

C1_Witness ==
  /\ saved
  /\ lastOp.op = "removeSaved"
  /\ thrown = "none"
  /\ bookmarkedExercises.v = <<>>
  /\ slot = Item(<<"[", "]">>)

\* C2: two toggles of one identifier in succession leave its membership as
\* it was before the first.
C2_DoubleToggleRestores ==
  dbl.n = 2 => (Includes(bookmarkedExercises, dbl.id) <=> dbl.was)

\* C3 (as stated): toggleBookmark(id) returns the new membership of id.
C3_ReturnsMembership ==
  (lastOp.op = "toggleBookmark" /\ thrown = "none" /\ saved)
    => lastOp.ret = Membership(lastOp.id)

\* C3 (amended): a toggleBookmark(id) that returns evaluates to undefined; the
\* new membership is what the persisted set says about id.
C3_ReturnsUndefined ==
  (lastOp.op = "toggleBookmark" /\ thrown = "none" /\ saved)
    => /\ lastOp.ret = "undefined"
       /\ bookmarkedExercises.t = "array"
       /\ Includes(JSONParse(slot.text), lastOp.id)
            <=> Includes(bookmarkedExercises, lastOp.id)

C3_Witness ==
  /\ lastOp.op = "toggleBookmark"
  /\ thrown = "none"
  /\ saved
  /\ Includes(bookmarkedExercises, lastOp.id)

\* the slot holds nothing, or something that is not a serialized array
SlotCorrupt == ~slot.present \/ JSONParse(slot.text).t # "array"

\* C4: loadBookmarks yields an empty bookmark set whenever the slot is
\* absent or holds anything but a serialized array.
C4_CorruptSlotLoadsEmpty ==
  (BookmarksLoaded /\ SlotCorrupt) => bookmarkedExercises = Arr(<<>>)

\* C5: a document that runs loadBookmarks after the previous document has
\* saved its bookmark set obtains the same identifiers in the same order, and
\* saving the loaded set again would write the stored text.
C5_RoundTrip ==
  (BookmarksLoaded /\ prev.valid)
    => /\ bookmarkedExercises = prev.mem
       /\ slot.text = JSONStringify(bookmarkedExercises)

C5_Witness ==
  /\ BookmarksLoaded
  /\ prev.valid
  /\ bookmarkedExercises = Arr(<<"b", "a">>)

\* C6: no identifier occurs more than once in the bookmark set.
C6_NoDuplicates ==
  bookmarkedExercises.t = "array"
    => \A i, j \in 1..Len(bookmarkedExercises.v) :
         i # j => bookmarkedExercises.v[i] # bookmarkedExercises.v[j]

(* ------------------------------- views -------------------------------- *)
GalleryVisible == page = "home" /\ "gallery" \notin hidden
DetailVisible == page = "home" /\ "exerciseDetail" \notin hidden

\* the card of id in the gallery grid shows membership b
CardShows(id, b) ==
  /\ innerHTML["exercisesGrid"].kind = "cards"
  /\ \E i \in 1..Len(innerHTML["exercisesGrid"].items) :
       innerHTML["exercisesGrid"].items[i] = [id |-> id, bookmarked |-> b]

\* the detail container shows the exercise id with membership b in its header
DetailShows(id, b) ==
  /\ innerHTML["exerciseDetailContent"].kind = "detail"
  /\ innerHTML["exerciseDetailContent"].items = <<[id |-> id, bookmarked |-> b]>>

\* the detail view of id is what the home page displays
DetailViewOf(id) ==
  /\ DetailVisible
  /\ ~GalleryVisible
  /\ \E b \in BOOLEAN : DetailShows(id, b)

\* C7: after toggleBookmark(id) of a catalog exercise, the view that shows the
\* affordance of id shows the new membership: the card while the gallery is
\* visible, the detail header while the detail view of id is visible.
C7_ToggleRerendersVisibleView ==
  (lastOp.op = "toggleBookmark" /\ saved /\ Found(exercises.v, lastOp.id))
    => /\ GalleryVisible
            => CardShows(lastOp.id, Includes(bookmarkedExercises, lastOp.id))
       /\ (DetailVisible /\ currentExercise = lastOp.id)
            => DetailShows(lastOp.id, Includes(bookmarkedExercises, lastOp.id))

\* C8: a popstate whose state carries a catalog exercise shows the detail
\* view of that exercise; one whose state carries none shows the gallery.
C8_PopstateRestoresView ==
  lastOp.op = "popstate"
    => /\ (lastOp.id # NoState /\ Found(exercises.v, lastOp.id))
            => DetailViewOf(lastOp.id)
       /\ lastOp.id = NoState => (GalleryVisible /\ ~DetailVisible)

C10_OpeningResetsFlags ==
  [][(currentExercise # "null" /\ currentExercise' # currentExercise
        /\ currentExercise' # "null")
       => /\ isPlaying' = FALSE
          /\ animationSpeed' = NormalSpeed
          /\ showMuscleHighlight' = FALSE]_vars

(* ------------------------------ account ------------------------------- *)
\* the two states of the account page
Anonymous ==
  "accountAuthSection" \notin hidden /\ "accountDashboardSection" \in hidden
Authenticated ==
  "accountDashboardSection" \notin hidden /\ "accountAuthSection" \in hidden

\* C11: a late completion of an earlier-started auth request does not switch
\* the view back: from a completed sign-out until a newer sign-in or sign-up
\* is started, the dashboard is not shown.
C11_NoStaleOverwrite ==
  sinceSignOut = "signedOut" => "accountDashboardSection" \in hidden

\* the outcomes with which handleSignIn and handleSignUp fail
FailedRets == {"invalid", "unavailable", "error", "rejected"}

\* the account page shows an inline error
InlineError == authMessage.cls = "auth-message error" /\ authMessage.text # ""

\* C12: once init has chosen a view, the page becomes authenticated only by
\* init finding a session or a granted sign-in or sign-up, leaves the
\* authenticated state only by sign-out and then is anonymous, and a failed
\* sign-in or sign-up leaves it anonymous with an inline error message.
C12_StateMachine ==
  [][/\ (Authenticated' /\ ~Authenticated)
          => \/ lastOp' = [Op("initAccountPage", "none") EXCEPT
                             !.ret = "authenticated"]
             \/ /\ lastOp'.op \in {"handleSignIn", "handleSignUp"}
                /\ lastOp'.ret = "granted"
     /\ (pc = "ready" /\ Authenticated /\ ~Authenticated')
          => (lastOp'.op = "handleSignOut" /\ Anonymous')
     /\ (lastOp'.op \in {"handleSignIn", "handleSignUp"}
           /\ lastOp'.ret \in FailedRets)
          => (Anonymous' /\ InlineError')]_vars

\* every text the handlers show as an error
ErrorTexts ==
  {MsgEnterEmailPassword, MsgAuthUnavailable, MsgInvalidCredentials,
   MsgFillAllFields, MsgWeakPassword, MsgCouldNotCreate}
    \cup {o.message : o \in SignInOutcomes \cup SignUpOutcomes}

\* C13: after a sign-up has settled with a user and no session, the page is
\* anonymous and shows the confirmation message, which is no error text and
\* is not marked as an error.
C13_UnconfirmedStaysAnonymous ==
  (lastOp.op = "handleSignUp" /\ lastOp.ret = "unconfirmed")
    => /\ Anonymous
       /\ authMessage.text = MsgCheckEmail
       /\ authMessage.text \notin ErrorTexts
       /\ authMessage.cls = "auth-message success"

\* C14: once handleSignOut has run to its end, whatever the remote call
\* did, the page is anonymous.
C14_SignOutEndsAnonymous ==
  (lastOp.op = "handleSignOut" /\ lastOp.ret # "awaiting") => Anonymous

\* C15: getCurrentUser returns a SessionUser or null and never throws, and
\* once initAccountPage has ended the page shows the auth form or the
\* dashboard.
C15_CurrentUserNeverThrows ==
  /\ lastOp.op = "getCurrentUser"
       => (lastOp.ret \in {"user", "null"} /\ thrown = "none")
  /\ (page = "account" /\ pc \in {"ready", "failed"})
       => (Anonymous \/ Authenticated)

\* the submitted form lacks a field the handler requires
MissingField(op, f) ==
  \/ Trim(f.email) = NoText
  \/ f.password = NoText
  \/ op = "handleSignUp" /\ Trim(f.name) = NoText

\* C16: a submission that fails local validation makes no remote call and
\* leaves the page anonymous: a missing field gets the fill-in message of
\* its form, a sign-up password shorter than 6 characters the weak-password
\* message.
C16_ValidationBeforeRemoteCall ==
  [][(lastOp'.op \in {"handleSignIn", "handleSignUp"}
        /\ lastOp'.ret \in {"invalid", "unavailable", "awaiting"})
       => /\ MissingField(lastOp'.op, form')
               => /\ authMessage'.text =
                       (IF lastOp'.op = "handleSignUp" THEN MsgFillAllFields
                        ELSE MsgEnterEmailPassword)
                  /\ InlineError'
                  /\ Anonymous'
                  /\ UNCHANGED <<remoteCalls, inflight>>
          /\ (lastOp'.op = "handleSignUp" /\ ~MissingField(lastOp'.op, form')
                /\ Len(form'.password) < 6)
               => /\ authMessage'.text = MsgWeakPassword
                  /\ InlineError'
                  /\ Anonymous'
                  /\ UNCHANGED <<remoteCalls, inflight>>]_vars

C16_Witness ==
  /\ lastOp.op = "handleSignUp"
  /\ lastOp.ret = "invalid"
  /\ Len(form.password) = 5
  /\ Trim(form.name) # NoText
  /\ authMessage.text = MsgWeakPassword
  /\ client
  /\ remoteCalls = 1
  /\ Anonymous

(* ------------------------------ catalog ------------------------------- *)
\* C17: the catalog is an array at all times; a load that signalled its
\* failure has left it empty; and a load that signalled none has replaced it
\* by the fetched array as a whole.
C17_FailedLoadLeavesEmpty ==
  /\ exercises.t = "array"
  /\ toast = "loadFailed" => exercises = Arr(<<>>)
  /\ (lastOp.op = "init" /\ toast = "none")
       => exercises \in {Arr(c) : c \in Catalogs \cup {<<>>}}

\* the content of the detail page's container
DetailPageContent == innerHTML["exercisePageContent"]

\* the identifier of the detail page matches no record of the catalog
NoMatch == exercises.t # "array" \/ ~Found(exercises.v, paramId)

\* C18: once initExercisePage has ended on a page with its container, it has
\* thrown nothing when the id is missing or matches no record; without an id
\* the container shows "no exercise selected" and nothing was fetched, with
\* an id that matches no record it shows "not found"; both link to the gallery.
C18_MissingIdIsInline ==
  (page = "exercise" /\ pc = "ready" /\ "exercisePageContent" \in elems)
    => /\ paramId = "none"
            => /\ DetailPageContent.kind = "noSelection"
               /\ DetailPageContent.back = "index.html"
               /\ lastOp.op = "DOMContentLoaded"
               /\ exercises = Arr(<<>>)
               /\ thrown = "none"
       /\ (paramId # "none" /\ NoMatch)
            => /\ DetailPageContent.kind = "notFound"
               /\ DetailPageContent.back = "index.html"
               /\ thrown = "none"

\* the element e shows the detail view of record ex with exactly the sections
\* of the optional fields ex has
ShowsDetailOf(e, ex) ==
  /\ innerHTML[e].kind = "detail"
  /\ innerHTML[e].items[1].id = ex.id
  /\ innerHTML[e].sections = ex.optional

\* C19: a call of renderExerciseDetail for a catalog record ends without an
\* error and shows the record with the sections of the optional fields it has
\* and no others: the in-page call of viewExercise in #exerciseDetailContent,
\* the call of the detail page in the container it names.
C19_OptionalSections ==
  /\ (page = "home" /\ lastOp.op = "viewExercise"
        /\ exercises.t = "array" /\ Found(exercises.v, lastOp.id))
       => /\ thrown = "none"
          /\ ShowsDetailOf("exerciseDetailContent",
                           exercises.v[FindIndex(exercises.v, lastOp.id)])
  /\ (page = "exercise" /\ lastOp.op = "init"
        /\ exercises.t = "array" /\ Found(exercises.v, paramId))
       => /\ thrown = "none"
          /\ ShowsDetailOf("exercisePageContent",
                           exercises.v[FindIndex(exercises.v, paramId)])

(* --------------------------- daily exercise --------------------------- *)
\* C20: a call of getDailyExercise on day d with a catalog of n records
\* returns null when n = 0 and otherwise the record with d mod n records
\* before it, and writes nothing to the bookmark slot.
C20_DailyIsDayModLength ==
  [][daily' # daily
       => LET n == Len(exercises.v)
          IN /\ daily'.day \in 1..31
             /\ n = 0 => daily'.ret = JsNull
             /\ n > 0 => \E i \in 0..(n - 1) :
                           /\ i = daily'.day % n
                           /\ daily'.ret = ObjectOf(exercises.v[i + 1])
             /\ slot' = slot]_vars

C20_Witness ==
  /\ daily.day = 31
  /\ Len(daily.of.v) = 3
  /\ daily.ret = ObjectOf(daily.of.v[2])
  /\ page = "exercise"
  /\ paramId = "b"

\* the identifier the last step looked up: the ?id= parameter for the init
\* of the detail page, the argument for the other callers
LookedUpId == IF lastOp.op = "init" THEN paramId ELSE lastOp.id

\* C21: the lookup by identifier used by initExercisePage, viewExercise and
\* toggleBookmark returns exactly the catalog record with that identifier
\* when the catalog has one, and undefined ("not found") when it has none.
C21_LookupById ==
  (lastOp.found.t # "none" /\ exercises.t = "array")
    => IF \E i \in 1..Len(exercises.v) : exercises.v[i].id = LookedUpId
         THEN /\ lastOp.found.t = "object"
              /\ lastOp.found.v[1].id = LookedUpId
              /\ \E i \in 1..Len(exercises.v) : exercises.v[i] = lastOp.found.v[1]
       ELSE lastOp.found = Undefined

\* viewExercise("b") found the second record of a two-record catalog
C21_Witness ==
  /\ lastOp.op = "viewExercise"
  /\ Len(exercises.v) = 2
  /\ lastOp.found = ObjectOf(exercises.v[2])
  /\ lastOp.id = "b"

\* what no detail control touches
ControlFrame == <<currentExercise, exercises, bookmarkedExercises, slot>>

\* C22: each of togglePlayPause, toggleSlowMotion and toggleMuscleHighlight
\* changes only its own flag (isPlaying, animationSpeed between 1.0 and 0.5,
\* showMuscleHighlight) and leaves the other two flags, the current exercise,
\* the catalog, the bookmark set and the persisted slot as they were; each
\* step inverts its two-valued flag, so two toggles of one control restore it.
C22_ControlsChangeOwnFlag ==
  [][/\ lastOp'.op = "togglePlayPause"
        => /\ isPlaying' = ~isPlaying
           /\ UNCHANGED <<animationSpeed, showMuscleHighlight, ControlFrame>>
     /\ lastOp'.op = "toggleSlowMotion"
        => /\ {animationSpeed, animationSpeed'} = {NormalSpeed, SlowSpeed}
           /\ UNCHANGED <<isPlaying, showMuscleHighlight, ControlFrame>>
     /\ lastOp'.op = "toggleMuscleHighlight"
        => /\ showMuscleHighlight' = ~showMuscleHighlight
           /\ UNCHANGED <<isPlaying, animationSpeed, ControlFrame>>]_vars

\* slow motion was switched on while playing, with an exercise selected and
\* a bookmark stored
C22_Witness ==
  /\ lastOp.op = "toggleSlowMotion"
  /\ animationSpeed = SlowSpeed
  /\ isPlaying
  /\ showMuscleHighlight
  /\ currentExercise = "a"
  /\ bookmarkedExercises = Arr(<<"a">>)
  /\ slot # NoItem

PlaybackSettled ==
  /\ lastOp.op \in {"togglePlayPause", "playFulfilled", "playRejected"}
  /\ media.pending = <<>>
  /\ HasVideo(elems, innerHTML, exercises)
  /\ HasPlayPauseBtn(elems, innerHTML)

\* C33: after play/pause toggles, once every pending callback has run, the
\* isPlaying flag, what the play/pause button shows and whether the video
\* plays agree.
C33_PlaybackStateAgrees ==
  PlaybackSettled => /\ media.btn = isPlaying
                     /\ media.playing = isPlaying

(* --------------------------- saved exercises -------------------------- *)
\* the identifiers the saved-exercises list shows, in its order
SavedShown == innerHTML["savedExercisesList"].items

\* the saved-exercises list shows items
ShowsSaved == innerHTML["savedExercisesList"].kind = "saved"

\* the last step was the init of a signed-in page or the callback of a list
\* load, and has rendered the items of the saved-exercises list to the end
ListJustRendered ==
  /\ lastOp.op \in {"initAccountPage", "renderSavedExercisesList"}
  /\ thrown = "none"
  /\ ShowsSaved

\* s lists elements of t in the order t has them
InOrderOf(s, t) ==
  \E f \in [1..Len(s) -> 1..Len(t)] :
    /\ \A i \in 1..Len(s) : t[f[i]] = s[i]
    /\ \A i, j \in 1..Len(s) : i < j => f[i] < f[j]

\* s without the elements equal to id
Without(s, id) == SelectSeq(s, LAMBDA x : x # id)

\* C24: the saved-exercises list shows the bookmarked exercises in the order
\* in which they were added: a rendered list follows the order of the
\* bookmark array, a newly added bookmark goes to the end of the array, and
\* removing one keeps the relative order of the others.
C24_SavedListInAdditionOrder ==
  /\ [](ListJustRendered => InOrderOf(SavedShown, bookmarkedExercises.v))
  /\ [][(lastOp'.op \in {"toggleBookmark", "removeSaved"}
          /\ bookmarkedExercises' # bookmarkedExercises)
         => /\ (lastOp'.op = "removeSaved" /\ thrown' = "none" /\ ShowsSaved')
                 => InOrderOf(SavedShown', bookmarkedExercises'.v)
            /\ IF Includes(bookmarkedExercises, lastOp'.id)
                 THEN /\ Without(bookmarkedExercises'.v, lastOp'.id)
                           = Without(bookmarkedExercises.v, lastOp'.id)
                      /\ Len(bookmarkedExercises'.v)
                           = Len(bookmarkedExercises.v) - 1
               ELSE bookmarkedExercises'.v
                      = Append(bookmarkedExercises.v, lastOp'.id)]_vars

\* after a reload the list shows "a" then "b": "b" was added in the previous
\* document, after "a"
C24_Witness ==
  /\ ListJustRendered
  /\ loads = 1
  /\ SavedShown = <<"a", "b">>
  /\ bookmarkedExercises = Arr(<<"a", "b">>)

\* the catalog has records and none of them has this identifier
AbsentFromCatalog(id) ==
  /\ exercises.t = "array"
  /\ exercises.v # <<>>
  /\ \A i \in 1..Len(exercises.v) : exercises.v[i].id # id

\* a bookmarked identifier that the loaded catalog does not have
Dangling(id) == Includes(bookmarkedExercises, id) /\ AbsentFromCatalog(id)

\* the bookmarked identifiers that the catalog has, in the order of the set
SavedInCatalog ==
  SelectSeq(bookmarkedExercises.v,
            LAMBDA id : \E i \in 1..Len(exercises.v) : exercises.v[i].id = id)

C26_NoFetchWhileAnonymous ==
  [][(pc = "ready" /\ Anonymous /\ lastOp'.ret # "granted")
       => listFetches' = listFetches]_vars

\* C27: a catalog load started by the saved-exercises list that completes
\* after the user has signed out leaves the auth form shown and the dashboard
\* hidden, and leaves the bookmark set and its slot as they were.
C27_LateLoadKeepsView ==
  [][(lastOp'.op = "renderSavedExercisesList" /\ sinceSignOut # "none"
        /\ Anonymous)
       => /\ Anonymous'
          /\ hidden' \cap AccountSections = hidden \cap AccountSections
          /\ UNCHANGED <<bookmarkedExercises, slot>>]_vars

\* after the sign-out the pending load has delivered the catalog and the
\* list has been rendered in the hidden dashboard
C27_Witness ==
  /\ lastOp.op = "renderSavedExercisesList"
  /\ sinceSignOut = "signedOut"
  /\ Anonymous
  /\ exercises.v # <<>>
  /\ ShowsSaved

InsertsOf(i) ==
  SelectSeq(react.inserts, LAMBDA x : x.call = i)

\* call i has ended: it has returned or an exception has ended it
Ended(i) == react.calls[i].at \in {"returned", "rejected"}

\* C29: saveExercise asks for an insert only when it was given a client and
\* a non-empty exercise id and the user lookup gave a user and no error, and
\* the row then carries that user's id and the exercise id; a call that ends
\* without an insert has returned { data: null, error } with an error, and so
\* has a call whose insert failed.
C29_InsertOnlyForUser ==
  \A i \in 1..Len(react.calls) :
    LET c == react.calls[i]
    IN /\ Len(InsertsOf(i)) <= 1
       /\ InsertsOf(i) # <<>>
            => /\ c.supabase /\ c.id # ""
               /\ InsertsOf(i)[1].row = Row(SessionUserId, c.id)
       /\ (Ended(i) /\ InsertsOf(i) = <<>>)
            => c.at = "returned" /\ c.ret.data = JsNull /\ c.ret.error # "none"
       /\ (Ended(i) /\ InsertsOf(i) # <<>> /\ c.ret.data = JsNull)
            => c.at = "returned" /\ c.ret.error # "none"

(* ------------------------------- history ------------------------------ *)
\* C30: handling a back or forward step only restores the view: the
\* listener leaves the entries of the session history as they are (so the
\* entries after the current one are still there after a back).
C30_PopstateKeepsHistory ==
  [][lastOp'.op = "popstate" => hist' = hist]_vars

\* C31: the chain of catalog loads that the saved-exercises list starts is
\* finite: when such a load has failed (the error is shown and the catalog is
\* left as it was), the callback that renders the list again starts no
\* further load, so that one load fewer is pending than before.
C31_FailedLoadEndsChain ==
  [][(lastOp'.op = "renderSavedExercisesList"
        /\ toast' = ShowError("loadFailed"))
       => listLoads' < listLoads]_vars

(* ------------------------------ two tabs ------------------------------ *)
\* the identifier is in the array a slot holds
InSlot(s, id) ==
  /\ s.present
  /\ JSONParse(s.text).t = "array"
  /\ Includes(JSONParse(s.text), id)

\* C32: with two documents on one slot, a bookmark added or removed in one
\* of them is not undone by the other: a toggle or a removal of an
\* identifier, in either document, leaves every other identifier persisted
\* or not as it was before the step.
C32_OtherTabKeepsBookmarks ==
  [][lastOp'.op \in {"toggleBookmark", "removeSaved", "peerToggleBookmark",
                     "peerRemoveSaved"}
       => \A id \in Ids \ {lastOp'.id} : InSlot(slot', id) = InSlot(slot, id)]_vars

(* ------------------------------ form tips ----------------------------- *)
\* the overlay is shown
TipsExpanded == "hidden" \notin tips.classes

\* C34: Escape closes the expanded form-tips overlay: a keydown of Escape
\* handled while the overlay and its button are there leaves the overlay
\* hidden and aria-expanded "false"; while the overlay is collapsed it
\* changes nothing.
C34_EscapeClosesTips ==
  [][(lastOp'.op = "keydown" /\ lastOp'.ret = "Escape"
        /\ HasTipsOverlay(elems, innerHTML) /\ HasTipsBtn(elems, innerHTML))
       => /\ "hidden" \in tips'.classes
          /\ tips'.expanded = "false"
          /\ ~TipsExpanded => tips' = tips]_vars

(* ---------------------------- useSaveExercise ------------------------- *)
\* a save started through the hook has not finished
HookInFlight == \E h \in 1..Len(react.hook) : react.hook[h].at = "awaiting"

\* C35: isLoading of the useSaveExercise hook is true exactly while a save
\* started through the hook is in flight: true from the start of a save,
\* still true while another call is pending after one has finished, and
\* false after the last one has finished, however it ended.
C35_LoadingWhileInFlight == react.isLoading = HookInFlight

====
